---- MODULE Spec2Model ----
(***************************************************************************)
(* A model of the article replication engine of newsp2p: the signed        *)
(* article, the Badger article repository with its secondary indexes, the  *)
(* ingest path (HandleIncomingArticle), the gossip article handler and the *)
(* pull-sync protocol (internal/p2p/sync.go).                              *)
(***************************************************************************)
EXTENDS Integers, Sequences, FiniteSets, TLC

(***************************************************************************)
(* Bounds of the model.                                                    *)
(***************************************************************************)
MaxId == 1
MaxVer == 2
MaxTime == 2
MaxIndexCalls == 3
MaxCalls == 3
MaxNow == 3
MaxFails == 1
BulkExtra == 2
MaxCreated == 2
MaxNetPuts == 2
MaxBootSteps == 3
MaxScoreEvents == 3
MaxScoreWeeks == 3

VARIABLES
    store,      \* node -> the article repository of the node
    index,      \* node -> the search index of the node: id -> document
    indexed,    \* cid -> the number of IndexArticle calls made on node q with the article
    calls,      \* the last HandleIncomingArticle call that ran alone, and the one before
    now,        \* the wall clock, in seconds
    lastSync,   \* SyncService.lastSync of node q (0: the zero time, never synced)
    round,      \* whether a syncWithPeers round of node q is running
    task,       \* peer -> the syncWithPeer goroutine of the running round
    handler,    \* thread of node q -> where it is inside HandleIncomingArticle
    best,       \* id -> the best validly signed article node q has finished receiving
    fails,      \* the number of failed exchanges so far
    reply,      \* the last answer of handleSyncRequest to a request from outside
    created,    \* the last result of ArticleService.Create
    blobs,      \* the blob store node q uploads to: the stored bytes and the pins
    topic,      \* the envelopes node q has published on the articles topic
    gossip,     \* the articles subscription of node q and what its handlers received
    op,         \* the last call of the article service of node q
    upload,     \* the Add call of the blob-store client in progress, and its attempts
    repos,      \* backend -> an article repository under the same calls, and the answers
    life,       \* the long-lived tasks of the node and the shutdown in progress
    disc,       \* the auto-discovery of node q: cache, known bootstraps, connected peers
    feed,       \* the feed sync of node q: the feed record, the pointer, the steps taken
    users,      \* the user repository of node q and the last Register call
    keyring,    \* the last private-key encryption and decryption
    did,        \* the DID authenticator: pending challenges and the verdicts given
    stage,      \* the Create call in progress: its position and the stages it has passed
    fetch,      \* the last GetByCID call: what it returned and what it wrote
    locks,      \* the mutexes of discovery and node: who holds them, who is on the network
    scores,     \* the reputation system: DID -> score in half points, and its clock
    boot        \* the bootstrap discovery: the table, the connections, whether it panicked

\* The state of the calls followed step by step.
later == <<stage, fetch, locks, scores, boot>>

\* The state of the services beside the article pipeline.
services == <<upload, repos, life, disc, feed, users, keyring, did, later>>

\* What the replication actions leave alone.
pipeline == <<blobs, topic, gossip, op, services>>

vars == <<store, index, indexed, calls, now, lastSync, round, task, handler, best,
          fails, reply, created, blobs, topic, gossip, op,
          upload, repos, life, disc, feed, users, keyring, did, stage, fetch, locks,
          scores, boot>>

(***************************************************************************)
(* Program constants.                                                      *)
(***************************************************************************)
MaxArticlesPerSync == 50
DaySeconds == 86400

Ids == 1..MaxId
Vers == 1..MaxVer
Times == 1..MaxTime

Min(a, b) == IF a <= b THEN a ELSE b

(***************************************************************************)
(* Ed25519, abstractly: a private key k pairs with the public key k; a     *)
(* signature names the message and the key that made it, and verifies     *)
(* only against that message and that key.                                 *)
(***************************************************************************)
AuthorKey == "ka"
OtherKey == "kb"

Sign(message, privateKey) == [m |-> message, k |-> privateKey]

Verify(message, signature, publicKey) == signature = [m |-> message, k |-> publicKey]

\* domain.Article.GetSignableContent: title, body, author, timestamp, tags,
\* category, in that order.  json.Marshal writes the wall-clock instant of
\* the timestamp, never its monotonic reading.
GetSignableContent(a) == <<a.title, a.body, a.author, a.ts, a.tags, a.cat>>

\* The mutant: a signer that signs the body alone.
SignArticleBody(a, privateKey) == [a EXCEPT !.sig = Sign(<<a.body>>, privateKey)]

\* auth.ArticleSigner.SignArticle
SignArticle(a, privateKey) == [a EXCEPT !.sig = Sign(GetSignableContent(a), privateKey)]

\* crypto.PublicKeyFromString: a key that is not 32 bytes of base64 is an error.
PublicKeyOk(pub) == pub \in {AuthorKey, OtherKey}

\* The mutant: a verifier that accepts every signature made over the content,
\* whoever made it, and every content signed by the author.
VerifyArticleAny(a) == PublicKeyOk(a.pubkey)

\* auth.ArticleSigner.VerifyArticle
VerifyArticle(a) ==
    /\ PublicKeyOk(a.pubkey)
    /\ Verify(GetSignableContent(a), a.sig, a.pubkey)

\* Article.ToJSON then FromJSON (the Badger value, the gossip envelope, the
\* sync response): every field survives, the timestamp loses its monotonic
\* clock reading.
JSONRoundTrip(a) == [a EXCEPT !.mono = FALSE]

\* The content identifier the blob store computes for an article: a hash of
\* the serialized article (id, version, timestamp, body and signature), here
\* an injective code whose numeric order stands for the order of the strings.
CidOf(id, ver, ts, body, good) ==
    ((((id * (MaxVer + 1)) + ver) * (MaxTime + 1) + ts) * 3 + body) * 2 + (IF good THEN 1 ELSE 0)

\* An article as it travels: signed by the author's key (good) or carrying a
\* signature the author's key did not make over this content (forged).
MkArticle(id, ver, ts, body, good) ==
    LET a == [id |-> id, cid |-> CidOf(id, ver, ts, body, good), ver |-> ver,
              ts |-> ts, mono |-> FALSE, title |-> "T", body |-> body,
              author |-> "alice", tags |-> <<>>, cat |-> "news",
              pubkey |-> AuthorKey, origin |-> "127.0.0.1", sig |-> <<>>]
    IN IF good THEN SignArticle(a, AuthorKey)
               ELSE [a EXCEPT !.sig = Sign(GetSignableContent(a), OtherKey)]

\* Every version and timestamp of every id with one body, and for the newest
\* of them a second body: the same id, version and timestamp under two cids.
GoodArticles ==
    {MkArticle(i, v, t, 1, TRUE) : i \in Ids, v \in Vers, t \in Times}
        \cup {MkArticle(i, MaxVer, MaxTime, 2, TRUE) : i \in Ids}

\* An article the author signed, its body replaced after the signing.
Tampered(i) ==
    [MkArticle(i, 1, 1, 1, TRUE) EXCEPT !.body = 2, !.cid = CidOf(i, 1, 1, 2, FALSE)]

ForgedArticles ==
    {MkArticle(i, 1, t, 1, FALSE) : i \in Ids, t \in Times} \cup {Tampered(i) : i \in Ids}

Articles == GoodArticles \cup ForgedArticles

(***************************************************************************)
(* The Badger article repository: the article under article:id:<id>, and   *)
(* the secondary keys article:cid:<cid>, article:time:<nanos>:<id> and     *)
(* article:author:<author>:<nanos>:<id>, each holding the id.              *)
(***************************************************************************)
EmptyStore == [byId |-> <<>>, byCid |-> <<>>, byTime |-> <<>>, byAuthor |-> {}]

Put(f, k, v) == [x \in (DOMAIN f) \cup {k} |-> IF x = k THEN v ELSE f[x]]

Count(f, k) == IF k \in DOMAIN f THEN f[k] ELSE 0

Held(f, k) == IF k \in DOMAIN f THEN f[k] ELSE {}

\* The order of the keys article:time:<nanos>:<id>.
KeyAfter(o, k) == o[1] > k[1] \/ (o[1] = k[1] /\ o[2] > k[2])

\* txn.Set of a time key.  The keys are kept as the reverse iterator of List
\* meets them, the largest first; a key that is there stays where it is.
SetKey(keys, k) ==
    IF \E i \in DOMAIN keys : keys[i] = k THEN keys
    ELSE LET before == Cardinality({i \in DOMAIN keys : KeyAfter(keys[i], k)})
         IN SubSeq(keys, 1, before) \o <<k>> \o SubSeq(keys, before + 1, Len(keys))

\* The mutant: a Create that does not write the time key.
RepoCreateNoTimeKey(s, a) ==
    [byId |-> Put(s.byId, a.id, JSONRoundTrip(a)),
     byCid |-> Put(s.byCid, a.cid, a.id),
     byTime |-> s.byTime,
     byAuthor |-> s.byAuthor \cup {<<a.author, a.ts, a.id>>}]

\* badger.ArticleRepo.Create: four Sets in one transaction, nothing deleted.
RepoCreate(s, a) ==
    [byId |-> Put(s.byId, a.id, JSONRoundTrip(a)),
     byCid |-> Put(s.byCid, a.cid, a.id),
     byTime |-> SetKey(s.byTime, <<a.ts, a.id>>),
     byAuthor |-> s.byAuthor \cup {<<a.author, a.ts, a.id>>}]

\* badger.ArticleRepo.GetByID: found or ErrArticleNotFound
RepoHas(s, id) == id \in DOMAIN s.byId

RepoGetByID(s, id) == s.byId[id]

\* badger.ArticleRepo.List without filter and pagination: the time index read
\* newest first, each entry resolved through article:id:<id>; an entry whose
\* article is gone is skipped.
RepoListAll(s) ==
    LET found == SelectSeq(s.byTime, LAMBDA k : k[2] \in DOMAIN s.byId)
    IN [i \in 1..Len(found) |-> s.byId[found[i][2]]]

\* The limit the most-recent listing is asked with.
RecentLimit == 10

\* badger.ArticleRepo.ListRecent: the first page of List.
ListRecent(s, limit) == SubSeq(RepoListAll(s), 1, Min(Len(RepoListAll(s)), limit))

(***************************************************************************)
(* The search index (bleve): IndexArticle puts the article's document      *)
(* under the article's id, replacing the document that was there.          *)
(***************************************************************************)
\* search.ArticleToDocument
ArticleToDocument(a) ==
    [id |-> a.id, title |-> a.title, body |-> a.body, author |-> a.author,
     tags |-> a.tags, cat |-> a.cat, ts |-> a.ts, cid |-> a.cid]

\* search.BleveIndex.IndexArticle
IndexArticle(ix, a) == Put(ix, a.id, ArticleToDocument(a))

(***************************************************************************)
(* HandleIncomingArticle, the ingest path of a replica: verify, look the   *)
(* id up, keep the winner of invariant I3, persist, index.                 *)
(***************************************************************************)
\* I3: the later version wins, then the later timestamp, then the larger cid.
Beats(a, b) ==
    \/ a.ver > b.ver
    \/ a.ver = b.ver /\ a.ts > b.ts
    \/ a.ver = b.ver /\ a.ts = b.ts /\ a.cid > b.cid

\* Steps 1 and 2: "invalid" (dropped, the signature fails), "present" (dropped,
\* the stored article is not beaten) or "persist".
IncomingVerdict(s, a) ==
    IF ~VerifyArticle(a) THEN "invalid"
    ELSE IF RepoHas(s, a.id) /\ ~Beats(a, RepoGetByID(s, a.id)) THEN "present"
    ELSE "persist"

\* The mutant: a handler that reports a duplicate as an error
\* (domain.ErrArticleAlreadyExists) instead of returning silently.
HandleIncomingArticleStrict(s, ix, a) ==
    IF IncomingVerdict(s, a) = "persist"
    THEN [store |-> RepoCreate(s, a), index |-> IndexArticle(ix, a),
          persisted |-> TRUE, res |-> "ok"]
    ELSE [store |-> s, index |-> ix, persisted |-> FALSE,
          res |-> IF IncomingVerdict(s, a) = "present" THEN "ErrArticleAlreadyExists" ELSE "ok"]

\* The whole handler run alone on a node: the repository and the index it
\* leaves, whether it persisted, and what it returns.
HandleIncomingArticle(s, ix, a) ==
    IF IncomingVerdict(s, a) = "persist"
    THEN [store |-> RepoCreate(s, a), index |-> IndexArticle(ix, a),
          persisted |-> TRUE, res |-> "ok"]
    ELSE [store |-> s, index |-> ix, persisted |-> FALSE, res |-> "ok"]

(***************************************************************************)
(* Pull-sync (internal/p2p/sync.go): the provider behind the service, the  *)
(* request a syncWithPeer goroutine sends and the answer of                *)
(* handleSyncRequest.                                                      *)
(***************************************************************************)
Take(l, n) == SubSeq(l, 1, Min(Len(l), n))

\* ArticleProvider.GetRecent: the articles not older than since, newest first,
\* at most limit of them.
GetRecent(s, limit, since) ==
    Take(SelectSeq(RepoListAll(s), LAMBDA a : a.ts >= since), limit)

\* ArticleProvider.HasArticle
HasArticle(s, id) == RepoHas(s, id)

\* The mutant: a responder that only replaces a limit that is not positive.
ClampLimitLow(limit) == IF limit <= 0 THEN MaxArticlesPerSync ELSE limit

\* handleSyncRequest: the limit it passes to the provider
ClampLimit(limit) ==
    IF limit <= 0 \/ limit > MaxArticlesPerSync THEN MaxArticlesPerSync ELSE limit

\* handleSyncRequest: the response to a request [since, limit]
SyncResponse(s, req) ==
    LET limit == ClampLimit(req.limit)
        articles == GetRecent(s, limit, req.since)
    IN [articles |-> articles, hasMore |-> Len(articles) >= limit]

\* syncWithPeer: the since of the request, 24 hours back when never synced
RequestSince(last, clock) == IF last = 0 THEN clock - DaySeconds ELSE last

(***************************************************************************)
(* The nodes: q runs the pull-sync loop against its connected peers p and  *)
(* r; every node has a gossip subscription.                                *)
(***************************************************************************)
Nodes == {"q", "p", "r"}
Peers == {"p", "r"}
Threads == Peers \cup {"g"}

NoCall == [n |-> 0, art |-> {}, prev |-> {}, before |-> {}, res |-> "none", changed |-> FALSE]

NoTask == [st |-> "off", since |-> 0, resp |-> <<>>, hasMore |-> FALSE]

NoHandler == [pc |-> "idle", art |-> {}, verdict |-> "none"]

NoReply == [limit |-> 0, n |-> 0, hasMore |-> FALSE]

NoCreated == [res |-> "none", art |-> {}]

\* The blob store before any upload.
NoBlobs == [data |-> <<>>, pins |-> {}]

\* The articles subscription before any message: the message ids the bus has
\* seen, the messages waiting in the subscription, whether the subscriber
\* loop is running, and what each registered handler has been called with.
NoGossip == [seen |-> {}, accepted |-> <<>>, pos |-> 0, active |-> TRUE,
             got |-> [h \in 1..2 |-> <<>>], errlog |-> <<>>, seqno |-> 0, n |-> 0,
             last |-> {}]

\* The article service before any call.
NoOp == [uuids |-> 0, name |-> "none", uid |-> "none", id |-> 0, res |-> "none",
         req |-> {}, before |-> {}, art |-> {}, signed |-> FALSE, bcast |-> "none"]

\* The blob-store client before any Add.
NoUpload == [pc |-> "idle", calls |-> 0, data |-> <<>>, reader |-> <<>>, pin |-> FALSE,
             attempt |-> 0, slept |-> <<>>, tried |-> <<>>, res |-> "none", cid |-> 0,
             pinned |-> {}]

\* The two repositories, empty.
NoRepos == [badger |-> [byId |-> <<>>, byCid |-> <<>>, byTime |-> <<>>, byAuthor |-> {}],
            sqlite |-> <<>>, call |-> "none", n |-> 0,
            res |-> [badger |-> "nil", sqlite |-> "nil"]]

\* The long-lived tasks as NewSyncService, NewBroadcaster and Start leave them.
NoLife == [cancelled |-> FALSE, loop |-> "sleep",
           task |-> [p \in {"p", "r"} |-> "off"],
           trig |-> [p \in {"p", "r"} |-> "off"], triggered |-> FALSE,
           trigEnded |-> FALSE,
           stopSync |-> "no",
           bcancelled |-> FALSE,
           subs |-> [t \in {"articles", "feeds", "votes", "moderation"} |-> "next"],
           stopB |-> "no",
           root |-> FALSE, feedloop |-> "init", stopChan |-> FALSE,
           stopF |-> "no"]

\* The auto-discovery of a node that never ran: no cache file, nothing known.
NoDisc == [clock |-> 0, ticks |-> 0, known |-> <<>>, file |-> <<>>, readable |-> FALSE,
           loadedAt |-> 0, last |-> "none",
           walk |-> "none", reach |-> {}, conn |-> {}, todo |-> {}, cur |-> 0,
           left |-> 0, tickIn |-> 0, t |-> 0]

\* The feed as it is created, before its first sync.
NoFeed == [pc |-> "idle", n |-> 0, clock |-> 1,
           rec |-> [lastCID |-> <<>>, ipns |-> "", lastSync |-> 0],
           pointer |-> <<>>, added |-> {}, pinned |-> {},
           manifest |-> <<>>, cid |-> <<>>, listed |-> <<>>, held |-> {},
           before |-> <<>>, trail |-> <<>>, res |-> "none"]

\* The user repository, empty, and no registration under way.
NoUsers == [db |-> [byId |-> <<>>, byUsername |-> <<>>, byEmail |-> <<>>],
            reg |-> [t \in {"h1", "h2"} |->
                        [pc |-> "idle", req |-> <<>>, taken |-> FALSE, res |-> "none",
                         wrote |-> FALSE]],
            nextId |-> 1, first |-> <<>>, n |-> 0]

\* No private key encrypted yet.
NoKeys == [n |-> 0, plain |-> [id |-> "none", len |-> 0], password |-> "none",
           encrypted |-> {}, tried |-> "none",
           out |-> [key |-> [id |-> "none", len |-> 0], err |-> "none"], opened |-> {}]

\* NewDIDAuth: no challenge given out.
NoDid == [clock |-> 0, ticks |-> 0, next |-> 1, calls |-> 0, challenges |-> <<>>,
          issued |-> <<>>, cleaning |-> FALSE, crashed |-> FALSE,
          verify |-> [t \in {"v1", "v2"} |->
                         [pc |-> "idle", response |-> <<>>, key |-> "none", at |-> 0,
                          res |-> "none"]],
          accepts |-> <<>>, accepted |-> {}]

\* The variables of the replication and of the article pipeline, for the
\* actions of the other services.
articles == <<store, index, indexed, calls, now, lastSync, round, task, handler, best,
              fails, reply, created, blobs, topic, gossip, op>>

\* No Create call has begun.
NoStage == [pc |-> "idle", calls |-> 0, id |-> 0, uid |-> "none", art |-> {},
            trail |-> <<>>, res |-> "none", failed |-> {}]

\* No GetByCID call has been made; the blob network holds nothing.
NoFetch == [net |-> <<>>, puts |-> 0, cid |-> 0, from |-> "none", parsed |-> {},
            res |-> "none", art |-> {}, wrote |-> FALSE]

\* NewAutoDiscovery and NewP2PNode: both mutexes free, the tables empty, no
\* task inside a function that takes them.
NoLocks == [ad |-> [w |-> "none", r |-> {}], n |-> [w |-> "none", r |-> {}],
            task |-> [t \in {"discovery", "reconnect", "n1", "n2"} |->
                         [pc |-> "idle", cur |-> "none", todo |-> {}]],
            known |-> {}, topics |-> {}, subs |-> {}]

\* NewReputationSystem: no score recorded.
NoScores == [score |-> <<>>, updated |-> <<>>, clock |-> 0, events |-> 0, last |-> "none",
             before |-> <<>>]

\* NewAutoDiscovery without a cache file: nothing known, nobody connected.
NoBoot == [known |-> <<>>, conn |-> {}, steps |-> 0, last |-> "none", crashed |-> FALSE]

InitRest ==
    /\ indexed = <<>>
    /\ calls = NoCall
    /\ now = 1
    /\ lastSync = 0
    /\ round = "idle"
    /\ task = [p \in Peers |-> NoTask]
    /\ handler = [t \in Threads |-> NoHandler]
    /\ best = <<>>
    /\ fails = 0
    /\ reply = NoReply
    /\ created = NoCreated
    /\ blobs = NoBlobs
    /\ topic = <<>>
    /\ gossip = NoGossip
    /\ op = NoOp
    /\ upload = NoUpload
    /\ repos = NoRepos
    /\ life = NoLife
    /\ disc = NoDisc
    /\ feed = NoFeed
    /\ users = NoUsers
    /\ keyring = NoKeys
    /\ did = NoDid
    /\ stage = NoStage
    /\ fetch = NoFetch
    /\ locks = NoLocks
    /\ scores = NoScores
    /\ boot = NoBoot

InitCommon ==
    /\ store = [n \in Nodes |-> EmptyStore]
    /\ index = [n \in Nodes |-> <<>>]
    /\ InitRest

(***************************************************************************)
(* SpecIngest: one replica on which HandleIncomingArticle is called again  *)
(* and again, one call at a time, with any article of the universe.        *)
(***************************************************************************)
Ingest(a) ==
    LET out == HandleIncomingArticle(store["q"], index["q"], a) IN
    /\ calls.n < MaxCalls
    /\ store' = [store EXCEPT !["q"] = out.store]
    /\ index' = [index EXCEPT !["q"] = out.index]
    /\ indexed' = IF out.persisted THEN Put(indexed, a.cid, Count(indexed, a.cid) + 1)
                                    ELSE indexed
    /\ calls' = [n |-> calls.n + 1, art |-> {a}, prev |-> calls.art,
                 before |-> IF RepoHas(store["q"], a.id)
                            THEN {RepoGetByID(store["q"], a.id)} ELSE {},
                 res |-> out.res,
                 changed |-> out.store # store["q"] \/ out.index # index["q"]]
    /\ UNCHANGED <<now, lastSync, round, task, handler, best, fails, reply, created, pipeline>>

NextIngest == \E a \in Articles : Ingest(a)

SpecIngest == InitCommon /\ [][NextIngest]_vars

(***************************************************************************)
(* Spec: node q runs sync rounds against its peers p and r while its       *)
(* gossip subscription delivers articles; the goroutines of q interleave   *)
(* at the steps of the handler (check, persist, index, return).  The       *)
(* peers obtain articles on their own and answer q's requests.             *)
(***************************************************************************)
BestOf(b, a) ==
    IF ~VerifyArticle(a) THEN b
    ELSE IF b = {} \/ \E x \in b : Beats(a, x) THEN {a} ELSE b

\* The clock advances.
Tick ==
    /\ now < MaxNow
    /\ now' = now + 1
    /\ UNCHANGED <<store, index, indexed, calls, lastSync, round, task, handler, best,
                   fails, reply, created, pipeline>>

\* A peer handles an article that reached it (its own author's, or one
\* gossiped to it): HandleIncomingArticle, run alone on the peer.
PeerObtain(n, a) ==
    LET out == HandleIncomingArticle(store[n], index[n], a) IN
    /\ a.ts <= now
    /\ store' = [store EXCEPT ![n] = out.store]
    /\ index' = [index EXCEPT ![n] = out.index]
    /\ UNCHANGED <<indexed, calls, now, lastSync, round, task, handler, best, fails,
                   reply, created, pipeline>>

\* subscribeArticles on q takes the next message of the topic and calls the
\* registered handler with its article.
GossipDeliver(a) ==
    /\ handler["g"].pc = "idle"
    /\ a.ts <= now
    /\ Count(indexed, a.cid) < MaxIndexCalls
    /\ handler' = [handler EXCEPT !["g"] = [pc |-> "check", art |-> {JSONRoundTrip(a)},
                                             verdict |-> "none"]]
    /\ UNCHANGED <<store, index, indexed, calls, now, lastSync, round, task, best,
                   fails, reply, created, pipeline>>

\* syncWithPeers: one goroutine for each connected peer.
SyncStart ==
    /\ round = "idle"
    /\ round' = "running"
    /\ task' = [p \in Peers |-> [NoTask EXCEPT !.st = "open"]]
    /\ UNCHANGED <<store, index, indexed, calls, now, lastSync, handler, best, fails,
                   reply, created, pipeline>>

\* What peer p answers, or would answer, to the request of q's goroutine.
Answer(p, since) == SyncResponse(store[p], [since |-> since, limit |-> MaxArticlesPerSync])

\* syncWithPeer: NewStream fails, the goroutine returns the error.  The task
\* keeps, for the record, the articles the exchange would have brought.
TaskOpenFail(p) ==
    /\ task[p].st = "open"
    /\ fails < MaxFails
    /\ fails' = fails + 1
    /\ task' = [task EXCEPT ![p].st = "failed", ![p].since = RequestSince(lastSync, now),
                             ![p].resp = Answer(p, RequestSince(lastSync, now)).articles]
    /\ UNCHANGED <<store, index, indexed, calls, now, lastSync, round, handler, best,
                   reply, created, pipeline>>

\* syncWithPeer: the request [since, MaxArticlesPerSync] is sent.
TaskRequest(p) ==
    /\ task[p].st = "open"
    /\ task' = [task EXCEPT ![p].st = "sent", ![p].since = RequestSince(lastSync, now)]
    /\ UNCHANGED <<store, index, indexed, calls, now, lastSync, round, handler, best,
                   fails, reply, created, pipeline>>

\* handleSyncRequest on the peer, and the response decoded by q.
HandleSyncRequest(p) ==
    LET resp == Answer(p, task[p].since) IN
    /\ task[p].st = "sent"
    /\ task' = [task EXCEPT ![p].st = "loop", ![p].resp = resp.articles,
                             ![p].hasMore = resp.hasMore]
    /\ UNCHANGED <<store, index, indexed, calls, now, lastSync, round, handler, best,
                   fails, reply, created, pipeline>>

\* syncWithPeer: the response cannot be read (the stream ends or breaks).
\* The task keeps, for the record, the articles of the lost response.
TaskReadFail(p) ==
    /\ task[p].st = "sent"
    /\ fails < MaxFails
    /\ fails' = fails + 1
    /\ task' = [task EXCEPT ![p].st = "failed",
                             ![p].resp = Answer(p, task[p].since).articles]
    /\ UNCHANGED <<store, index, indexed, calls, now, lastSync, round, handler, best,
                   reply, created, pipeline>>

\* The remote end of the stream does not run this program: it answers with an
\* article whose signature is forged.
TaskRespondForged(p, f) ==
    /\ task[p].st = "sent"
    /\ f.ts <= now
    /\ task' = [task EXCEPT ![p].st = "loop", ![p].resp = <<f>>]
    /\ UNCHANGED <<store, index, indexed, calls, now, lastSync, round, handler, best,
                   fails, reply, created, pipeline>>

\* syncWithPeer, the loop over the response: an article whose id the provider
\* has is skipped, any other is handed to HandleIncomingArticle.
TaskHasArticle(p) ==
    /\ task[p].st = "loop"
    /\ task[p].resp # <<>>
    /\ handler[p].pc = "idle"
    /\ LET a == JSONRoundTrip(Head(task[p].resp)) IN
         IF HasArticle(store["q"], a.id)
         THEN /\ task' = [task EXCEPT ![p].resp = Tail(@)]
              /\ best' = Put(best, a.id, BestOf(Held(best, a.id), a))
              /\ UNCHANGED handler
         ELSE /\ Count(indexed, a.cid) < MaxIndexCalls
              /\ handler' = [handler EXCEPT ![p] = [pc |-> "check", art |-> {a},
                                                    verdict |-> "none"]]
              /\ UNCHANGED <<task, best>>
    /\ UNCHANGED <<store, index, indexed, calls, now, lastSync, round, fails, reply,
                   created, pipeline>>

\* HandleIncomingArticle, steps 1 and 2: verify, look the id up, compare.
HICheck(t) ==
    /\ handler[t].pc = "check"
    /\ \E a \in handler[t].art :
         LET v == IncomingVerdict(store["q"], a) IN
         handler' = [handler EXCEPT ![t].verdict = v,
                                    ![t].pc = IF v = "persist" THEN "persist" ELSE "return"]
    /\ UNCHANGED <<store, index, indexed, calls, now, lastSync, round, task, best,
                   fails, reply, created, pipeline>>

\* HandleIncomingArticle, step 3: persist.
HIPersist(t) ==
    /\ handler[t].pc = "persist"
    /\ \E a \in handler[t].art : store' = [store EXCEPT !["q"] = RepoCreate(@, a)]
    /\ handler' = [handler EXCEPT ![t].pc = "index"]
    /\ UNCHANGED <<index, indexed, calls, now, lastSync, round, task, best, fails,
                   reply, created, pipeline>>

\* HandleIncomingArticle, step 4: index.
HIIndex(t) ==
    /\ handler[t].pc = "index"
    /\ \E a \in handler[t].art :
         /\ index' = [index EXCEPT !["q"] = IndexArticle(@, a)]
         /\ indexed' = Put(indexed, a.cid, Count(indexed, a.cid) + 1)
    /\ handler' = [handler EXCEPT ![t].pc = "return"]
    /\ UNCHANGED <<store, calls, now, lastSync, round, task, best, fails, reply,
                   created, pipeline>>

\* HandleIncomingArticle returns to its caller: the gossip loop takes the
\* next message, the sync loop the next article of the response.
HIReturn(t) ==
    /\ handler[t].pc = "return"
    /\ handler' = [handler EXCEPT ![t] = NoHandler]
    /\ \E a \in handler[t].art : best' = Put(best, a.id, BestOf(Held(best, a.id), a))
    /\ task' = IF t \in Peers THEN [task EXCEPT ![t].resp = Tail(@)] ELSE task
    /\ UNCHANGED <<store, index, indexed, calls, now, lastSync, round, fails, reply,
                   created, pipeline>>

\* syncWithPeer returns nil: the response is processed.
TaskDone(p) ==
    /\ task[p].st = "loop"
    /\ task[p].resp = <<>>
    /\ task' = [task EXCEPT ![p].st = "done"]
    /\ UNCHANGED <<store, index, indexed, calls, now, lastSync, round, handler, best,
                   fails, reply, created, pipeline>>

\* syncWithPeers after wg.Wait(): lastSync = time.Now(), whatever the
\* goroutines returned.
SyncFinish ==
    /\ round = "running"
    /\ \A p \in Peers : task[p].st \in {"done", "failed"}
    /\ lastSync' = now
    /\ round' = "idle"
    /\ task' = [p \in Peers |-> NoTask]
    /\ UNCHANGED <<store, index, indexed, calls, now, handler, best, fails, reply,
                   created, pipeline>>

Init == InitCommon

\* The steps the goroutines of q take inside HandleIncomingArticle.
HandlerStep ==
    \/ \E t \in Threads : HICheck(t)
    \/ \E t \in Threads : HIPersist(t)
    \/ \E t \in Threads : HIIndex(t)
    \/ \E t \in Threads : HIReturn(t)

\* The steps of a sync round of q outside the handler.
SyncStep ==
    \/ SyncStart
    \/ \E p \in Peers : TaskRequest(p)
    \/ \E p \in Peers : HandleSyncRequest(p)
    \/ \E p \in Peers : TaskHasArticle(p)
    \/ \E p \in Peers : TaskDone(p)
    \/ SyncFinish

Next ==
    \/ round = "idle" /\ \E n \in Peers, a \in Articles : PeerObtain(n, a)
    \/ \E a \in Articles : GossipDeliver(a)
    \/ \E p \in Peers, f \in ForgedArticles : TaskRespondForged(p, f)
    \/ SyncStart
    \/ \E p \in Peers : TaskRequest(p)
    \/ \E p \in Peers : HandleSyncRequest(p)
    \/ \E p \in Peers : TaskHasArticle(p)
    \/ \E p \in Peers : TaskDone(p)
    \/ SyncFinish
    \/ \E t \in Threads : HICheck(t)
    \/ \E t \in Threads : HIPersist(t)
    \/ \E t \in Threads : HIIndex(t)
    \/ \E t \in Threads : HIReturn(t)

Spec == Init /\ [][Next]_vars

(***************************************************************************)
(* SpecSync: the same node over time, under the schedules in which one     *)
(* goroutine of q at a time is inside HandleIncomingArticle and runs it to *)
(* its return before anything else happens.                                *)
(***************************************************************************)
\* The first and the last version of every id.
Versions ==
    {MkArticle(i, 1, 1, 1, TRUE) : i \in Ids}
        \cup {MkArticle(i, MaxVer, MaxTime, 1, TRUE) : i \in Ids}

Quiet == \A t \in Threads : handler[t].pc = "idle"

NextSync ==
    \/ \E t \in Threads : HICheck(t)
    \/ \E t \in Threads : HIPersist(t)
    \/ \E t \in Threads : HIIndex(t)
    \/ \E t \in Threads : HIReturn(t)
    \/ Quiet /\ Tick
    \/ Quiet /\ \E n \in Peers, a \in Versions : PeerObtain(n, a)
    \/ Quiet /\ \E a \in Versions : GossipDeliver(a)
    \/ Quiet /\ SyncStart
    \/ Quiet /\ \E p \in Peers : TaskOpenFail(p)
    \/ Quiet /\ \E p \in Peers : TaskRequest(p)
    \/ Quiet /\ \E p \in Peers : HandleSyncRequest(p)
    \/ Quiet /\ \E p \in Peers : TaskReadFail(p)
    \/ Quiet /\ \E p \in Peers : TaskHasArticle(p)
    \/ Quiet /\ \E p \in Peers : TaskDone(p)
    \/ Quiet /\ SyncFinish

SpecSync == Init /\ [][NextSync]_vars

(***************************************************************************)
(* SpecBulk: peer p starts with about MaxArticlesPerSync articles of its   *)
(* own, q with none, and q runs its sync rounds.                           *)
(***************************************************************************)
BulkSizes == (MaxArticlesPerSync - 1)..(MaxArticlesPerSync + BulkExtra)

BulkArticle(i) == MkArticle(i, 1, 1, 1, TRUE)

\* The repository and the index of a node that created the articles 1..n:
\* what n calls of RepoCreate and IndexArticle leave.
Preload(n) ==
    [store |-> [byId |-> [i \in 1..n |-> JSONRoundTrip(BulkArticle(i))],
                byCid |-> [c \in {BulkArticle(i).cid : i \in 1..n} |->
                              CHOOSE i \in 1..n : BulkArticle(i).cid = c],
                byTime |-> [i \in 1..n |-> <<BulkArticle(n + 1 - i).ts, n + 1 - i>>],
                byAuthor |-> {<<BulkArticle(i).author, BulkArticle(i).ts, i>> : i \in 1..n}],
     index |-> [i \in 1..n |-> ArticleToDocument(BulkArticle(i))]]

InitBulk ==
    /\ \E n \in BulkSizes :
         /\ store = [x \in Nodes |-> IF x = "p" THEN Preload(n).store ELSE EmptyStore]
         /\ index = [x \in Nodes |-> IF x = "p" THEN Preload(n).index ELSE <<>>]
    /\ InitRest

NextBulk ==
    \/ \E t \in Threads : HICheck(t)
    \/ \E t \in Threads : HIPersist(t)
    \/ \E t \in Threads : HIIndex(t)
    \/ \E t \in Threads : HIReturn(t)
    \/ Quiet /\ round = "idle" /\ Tick
    \/ Quiet /\ SyncStart
    \/ Quiet /\ \E p \in Peers : TaskRequest(p)
    \/ Quiet /\ \E p \in Peers : HandleSyncRequest(p)
    \/ Quiet /\ \E p \in Peers : TaskHasArticle(p)
    \/ Quiet /\ \E p \in Peers : TaskDone(p)
    \/ Quiet /\ SyncFinish

SpecBulk == InitBulk /\ [][NextBulk]_vars

(***************************************************************************)
(* SpecServe: handleSyncRequest alone, answering requests that carry any   *)
(* limit and any since.                                                    *)
(***************************************************************************)
Limits == (0 - 1)..(MaxArticlesPerSync + BulkExtra)

Sinces == {1 - DaySeconds, 1, MaxTime}

OutsideRequest(n, limit, since) ==
    LET resp == SyncResponse(store[n], [since |-> since, limit |-> limit]) IN
    /\ reply' = [limit |-> limit, n |-> Len(resp.articles), hasMore |-> resp.hasMore]
    /\ UNCHANGED <<store, index, indexed, calls, now, lastSync, round, task, handler,
                   best, fails, created, pipeline>>

NextServe == \E n \in Peers, limit \in Limits, since \in Sinces : OutsideRequest(n, limit, since)

SpecServe == InitBulk /\ [][NextServe]_vars

(***************************************************************************)
(* The article service of the authoring node q (internal/service/          *)
(* article.go): Create, Update and Delete over the user records, the       *)
(* signer, the blob store, the repository, the search index and the        *)
(* broadcaster.                                                            *)
(***************************************************************************)
\* crypto.EncryptPrivateKey and DecryptPrivateKey, abstractly: the ciphertext
\* opens under the password it was made with, and the placeholder of a node
\* user opens under none.
EncryptPrivateKey(privateKey, password) == [key |-> privateKey, pw |-> password]

DecryptOk(encrypted, password) == encrypted.pw = password

\* UserService.Register stores the key pair it generated, the private key
\* encrypted under the password hash; EnsureNodeUser stores a placeholder.
Users ==
    [u1 |-> [name |-> "alice", active |-> TRUE, pub |-> AuthorKey, hash |-> "h1",
             priv |-> EncryptPrivateKey(AuthorKey, "h1")],
     u2 |-> [name |-> "bob", active |-> FALSE, pub |-> OtherKey, hash |-> "h2",
             priv |-> EncryptPrivateKey(OtherKey, "h2")],
     u3 |-> [name |-> "node", active |-> TRUE, pub |-> "libp2p", hash |-> "h3",
             priv |-> [key |-> "managed-by-node", pw |-> "none"]]]

UserIds == {"u0", "u1", "u2", "u3"}

AllowedCategories ==
    {"", "news", "technology", "science", "politics", "business", "sports", "health",
     "entertainment", "opinion", "world", "local", "environment", "culture", "other"}

MaxTitleLen == 200
MaxTags == 10
MaxTagLen == 50

\* The mutant: a validation that forgets the limits on the tags.
ValidateNoTags(a) ==
    /\ a.title # ""
    /\ Len(a.title) <= MaxTitleLen
    /\ a.body # 0
    /\ a.author # ""
    /\ a.cat \in AllowedCategories

\* domain.Article.Validate
Validate(a) ==
    /\ a.title # ""
    /\ Len(a.title) <= MaxTitleLen
    /\ a.body # 0
    /\ a.author # ""
    /\ Len(a.tags) <= MaxTags
    /\ \A i \in DOMAIN a.tags : Len(a.tags[i]) <= MaxTagLen /\ a.tags[i] # ""
    /\ a.cat \in AllowedCategories

\* A string of n copies of s.
RECURSIVE Rep(_, _)
Rep(s, n) ==
    IF n = 0 THEN ""
    ELSE IF n % 2 = 1 THEN s \o Rep(s, n - 1)
    ELSE Rep(s, n \div 2) \o Rep(s, n \div 2)

\* The titles, tag lists and categories of the model: the ordinary ones, the
\* ones at the limits of Validate and the ones just past them.
Titles == <<"", "T", "U", Rep("t", MaxTitleLen), Rep("t", MaxTitleLen + 1)>>

TagLists ==
    << <<>>, <<"x">>,
       [i \in 1..MaxTags |-> IF i = 1 THEN Rep("g", MaxTagLen) ELSE "x"],
       [i \in 1..(MaxTags + 1) |-> "x"],
       <<"x", "">>,
       <<Rep("g", MaxTagLen + 1)>> >>

Categories == <<"", "news", "technology", "bogus">>

\* domain.ArticleCreateRequest: two requests Validate accepts, and each way
\* of breaking the first of them.
Requests ==
    LET r1 == [title |-> "T", body |-> 1, tags |-> <<>>, cat |-> "news"]
        r2 == [title |-> Titles[4], body |-> 2, tags |-> TagLists[3], cat |-> ""]
    IN {r1, r2}
         \cup {[r1 EXCEPT !.title = t] : t \in {Titles[1], Titles[5]}}
         \cup {[r1 EXCEPT !.body = 0]}
         \cup {[r1 EXCEPT !.tags = TagLists[k]] : k \in 4..6}
         \cup {[r1 EXCEPT !.cat = "bogus"]}

\* Article.ToJSON: json.Marshal of the whole article, the cid field included;
\* the timestamp is written without its monotonic clock reading.
ToJSON(a) == [a EXCEPT !.mono = FALSE]

IndexIn(seq, x) == CHOOSE k \in DOMAIN seq : seq[k] = x

ContentSpan == (Len(Titles) + 1) * 3 * (Len(TagLists) + 1) * (Len(Categories) + 1)

BlobSpan == (MaxCreated + 2) * (MaxNow + 2) * ContentSpan

\* The content identifier the blob store computes for the bytes it is given:
\* a hash, here an injective code of the serialized fields that differ
\* between the articles the service builds, the cid field among them.
ContentCid(bytes) ==
    LET content == ((IndexIn(Titles, bytes.title) * 3 + bytes.body) * (Len(TagLists) + 1)
                        + IndexIn(TagLists, bytes.tags)) * (Len(Categories) + 1)
                        + IndexIn(Categories, bytes.cat)
    IN (bytes.id * (MaxNow + 2) + bytes.ts) * ContentSpan + content + BlobSpan * bytes.cid

\* ipfs.Client.Add with pinContent set: the bytes are stored under their cid
\* and the cid is pinned.
IpfsAdd(b, bytes) ==
    [data |-> Put(b.data, ContentCid(bytes), bytes),
     pins |-> b.pins \cup {ContentCid(bytes)}]

\* ipfs.Client.Unpin: nothing to do for an empty cid.
IpfsUnpin(b, cid) == IF cid = 0 THEN b ELSE [b EXCEPT !.pins = @ \ {cid}]

\* The address the HTTP handler passes as the origin of the article.
OriginIP == "127.0.0.1"

\* p2p.ArticleMessage as BroadcastArticle fills it.
ArticleMessage(msgType, a, peer) ==
    [type |-> msgType, art |-> ToJSON(a), id |-> a.id, ts |-> a.ts, peer |-> peer]

\* Broadcaster.BroadcastArticle: the envelope is published on the articles
\* topic, or Publish fails and the error is returned.
BroadcastArticle(tp, msgType, a, publishOk) ==
    IF publishOk THEN [topic |-> Append(tp, ArticleMessage(msgType, a, "q")), err |-> FALSE]
    ELSE [topic |-> tp, err |-> TRUE]

Broadcasters == {"none", "up", "down"}

\* The mutant: a broadcast step whose failure fails the call.
CreateBroadcastStrict(tp, a, bc) ==
    IF bc = "none" THEN [topic |-> tp, bcast |-> "elided", res |-> "ok"]
    ELSE LET out == BroadcastArticle(tp, "new", a, bc = "up")
         IN [topic |-> out.topic, bcast |-> IF out.err THEN "failed" ELSE "sent",
             res |-> IF out.err THEN "ErrBroadcast" ELSE "ok"]

\* Create, step 8: broadcast {type: "new", article}, best-effort, elided when
\* no broadcaster is attached.
CreateBroadcast(tp, a, bc) ==
    IF bc = "none" THEN [topic |-> tp, bcast |-> "elided", res |-> "ok"]
    ELSE LET out == BroadcastArticle(tp, "new", a, bc = "up")
         IN [topic |-> out.topic, bcast |-> IF out.err THEN "failed" ELSE "sent",
             res |-> "ok"]

\* ArticleService.Create up to the upload: the error it returns, or the
\* signed article with its cid, and the bytes it uploaded.
CreateArticle(uid, req, id, clock, ipfsOk) ==
    LET none == [res |-> "none", art |-> {}, signed |-> FALSE, bytes |-> {}] IN
    IF uid \notin DOMAIN Users THEN [none EXCEPT !.res = "ErrUserNotFound"]
    ELSE LET user == Users[uid]
             a == [id |-> id, cid |-> 0, ver |-> 1,
                   ts |-> clock, mono |-> TRUE, title |-> req.title, body |-> req.body,
                   author |-> user.name, tags |-> req.tags, cat |-> req.cat,
                   pubkey |-> user.pub, origin |-> OriginIP, sig |-> <<>>]
             signed == SignArticle(a, user.priv.key)
         IN IF ~user.active THEN [none EXCEPT !.res = "ErrUserNotActive"]
            ELSE IF ~DecryptOk(user.priv, user.hash) THEN [none EXCEPT !.res = "ErrDecrypt"]
            ELSE IF ~Validate(a) THEN [none EXCEPT !.res = "ErrValidation"]
            ELSE IF ~ipfsOk
                 THEN [none EXCEPT !.res = "ErrIPFSUploadFailed", !.signed = TRUE]
            ELSE [res |-> "ok", art |-> {[signed EXCEPT !.cid = ContentCid(ToJSON(signed))]},
                  signed |-> TRUE, bytes |-> {ToJSON(signed)}]

\* ArticleService.Create: the article is uploaded, stored, indexed,
\* broadcast and returned.
Create(uid, req, ipfsOk, bc) ==
    LET id == op.uuids + 1
        out == CreateArticle(uid, req, id, now, ipfsOk)
    IN /\ id <= MaxCreated
       /\ IF out.res = "ok"
          THEN \E a \in out.art, bytes \in out.bytes :
                 LET sent == CreateBroadcast(topic, a, bc) IN
                 /\ blobs' = IpfsAdd(blobs, bytes)
                 /\ store' = [store EXCEPT !["q"] = RepoCreate(@, a)]
                 /\ index' = [index EXCEPT !["q"] = IndexArticle(@, a)]
                 /\ indexed' = Put(indexed, a.cid, Count(indexed, a.cid) + 1)
                 /\ topic' = sent.topic
                 /\ created' = [res |-> sent.res, art |-> IF sent.res = "ok" THEN {a} ELSE {}]
                 /\ op' = [uuids |-> id, name |-> "Create", uid |-> uid, id |-> id,
                           res |-> sent.res, req |-> {req}, before |-> {},
                           art |-> IF sent.res = "ok" THEN {a} ELSE {},
                           signed |-> TRUE, bcast |-> sent.bcast]
          ELSE /\ created' = [res |-> out.res, art |-> {}]
               /\ op' = [uuids |-> op.uuids, name |-> "Create", uid |-> uid, id |-> 0,
                         res |-> out.res, req |-> {req}, before |-> {}, art |-> {},
                         signed |-> out.signed, bcast |-> "none"]
               /\ UNCHANGED <<store, index, indexed, blobs, topic>>
       /\ UNCHANGED <<calls, now, lastSync, round, task, handler, best, fails, reply, gossip, services>>

(***************************************************************************)
(* SpecCreate: ArticleService.Create on node q, called by the registered   *)
(* user, by a deactivated user, by the node's own user record and with an  *)
(* id no user has.                                                         *)
(***************************************************************************)
NextCreate ==
    \/ Tick
    \/ \E uid \in UserIds, req \in Requests, ipfsOk \in BOOLEAN, bc \in Broadcasters :
          Create(uid, req, ipfsOk, bc)

SpecCreate == InitCommon /\ [][NextCreate]_vars

(***************************************************************************)
(* SpecAuthor: the authoring node q over time.  Its users create, update   *)
(* and delete articles.                                                    *)
(***************************************************************************)
Drop(f, k) == [x \in (DOMAIN f) \ {k} |-> f[x]]

\* badger.ArticleRepo.Update: one Set, of the article under its id; the
\* secondary keys stay as they are.
RepoUpdate(s, a) == [s EXCEPT !.byId = Put(@, a.id, JSONRoundTrip(a))]

\* badger.ArticleRepo.Delete: the secondary keys of the stored article, then
\* the article.
RepoDelete(s, id) ==
    LET a == s.byId[id] IN
    [byId |-> Drop(s.byId, id),
     byCid |-> Drop(s.byCid, a.cid),
     byTime |-> SelectSeq(s.byTime, LAMBDA k : k # <<a.ts, a.id>>),
     byAuthor |-> s.byAuthor \ {<<a.author, a.ts, a.id>>}]

\* search.BleveIndex.DeleteArticle
DeleteFromIndex(ix, id) == Drop(ix, id)

\* domain.ArticleUpdateRequest: a patch of the title, of the body, of the
\* tags and the category, an empty one, and one that Validate refuses.  The
\* tags of a patch are nil ({}) or a list.
Patches ==
    LET none == [title |-> "", body |-> 0, tags |-> {}, cat |-> ""] IN
    {none,
     [none EXCEPT !.title = "U"],
     [none EXCEPT !.body = 2],
     [none EXCEPT !.tags = {<<"x">>}, !.cat = "technology"],
     [none EXCEPT !.cat = "bogus"]}

\* ArticleService.Update: the non-empty fields of the patch replace the
\* article's.
ApplyPatch(a, patch) ==
    [a EXCEPT !.title = IF patch.title # "" THEN patch.title ELSE @,
              !.body = IF patch.body # 0 THEN patch.body ELSE @,
              !.tags = IF patch.tags # {} THEN CHOOSE t \in patch.tags : TRUE ELSE @,
              !.cat = IF patch.cat # "" THEN patch.cat ELSE @]

\* The mutant: a service that lets any registered user update and delete.
AuthorizeAny(s, uid, id) ==
    IF ~RepoHas(s, id) THEN "ErrArticleNotFound"
    ELSE IF uid \notin DOMAIN Users THEN "ErrUserNotFound"
    ELSE "ok"

\* ArticleService.Update and Delete, to the authorization: the article is
\* loaded, then the user, and the user's name must be the article's author.
Authorize(s, uid, id) ==
    IF ~RepoHas(s, id) THEN "ErrArticleNotFound"
    ELSE IF uid \notin DOMAIN Users THEN "ErrUserNotFound"
    ELSE IF RepoGetByID(s, id).author # Users[uid].name THEN "ErrForbidden"
    ELSE "ok"

\* ArticleService.Update: what it returns, and the article it persists.
UpdateArticle(s, uid, id, patch) ==
    LET auth == Authorize(s, uid, id) IN
    IF auth # "ok" THEN [res |-> auth, art |-> {}]
    ELSE LET a == ApplyPatch(RepoGetByID(s, id), patch)
         IN IF ~Validate(a) THEN [res |-> "ErrValidation", art |-> {}]
            ELSE [res |-> "ok", art |-> {a}]

StoredBefore(s, id) == IF RepoHas(s, id) THEN {RepoGetByID(s, id)} ELSE {}

\* ArticleService.Update
Update(uid, id, patch) ==
    LET out == UpdateArticle(store["q"], uid, id, patch) IN
    /\ IF out.res = "ok"
       THEN \E a \in out.art :
              /\ store' = [store EXCEPT !["q"] = RepoUpdate(@, a)]
              /\ index' = [index EXCEPT !["q"] = IndexArticle(@, a)]
       ELSE UNCHANGED <<store, index>>
    /\ op' = [uuids |-> op.uuids, name |-> "Update", uid |-> uid, id |-> id,
              res |-> out.res, req |-> {patch}, before |-> StoredBefore(store["q"], id),
              art |-> out.art, signed |-> FALSE, bcast |-> "none"]
    /\ UNCHANGED <<indexed, calls, now, lastSync, round, task, handler, best, fails,
                   reply, created, blobs, topic, gossip, services>>

\* ArticleService.Delete
Delete(uid, id) ==
    LET auth == Authorize(store["q"], uid, id) IN
    /\ IF auth = "ok"
       THEN /\ store' = [store EXCEPT !["q"] = RepoDelete(@, id)]
            /\ index' = [index EXCEPT !["q"] = DeleteFromIndex(@, id)]
            /\ blobs' = IpfsUnpin(blobs, RepoGetByID(store["q"], id).cid)
       ELSE UNCHANGED <<store, index, blobs>>
    /\ op' = [uuids |-> op.uuids, name |-> "Delete", uid |-> uid, id |-> id,
              res |-> auth, req |-> {}, before |-> StoredBefore(store["q"], id),
              art |-> {}, signed |-> FALSE, bcast |-> "none"]
    /\ UNCHANGED <<indexed, calls, now, lastSync, round, task, handler, best, fails,
                   reply, created, topic, gossip, services>>

\* The handler registered on the replica p is called with the k-th envelope
\* q published: its article goes to HandleIncomingArticle.
ReplicaReceive(k) ==
    LET a == JSONRoundTrip(topic[k].art)
        out == HandleIncomingArticle(store["p"], index["p"], a)
    IN /\ store' = [store EXCEPT !["p"] = out.store]
       /\ index' = [index EXCEPT !["p"] = out.index]
       /\ calls' = [n |-> 1, art |-> {a}, prev |-> {},
                    before |-> StoredBefore(store["p"], a.id),
                    res |-> out.res,
                    changed |-> out.store # store["p"] \/ out.index # index["p"]]
       /\ UNCHANGED <<indexed, now, lastSync, round, task, handler, best, fails, reply,
                      created, pipeline>>

CreatedIds == 1..MaxCreated

\* The requests of SpecAuthor: the plain one and one Validate refuses.
AuthorRequests == {r \in Requests : r.title = "T" /\ r.body = 1 /\ r.tags = <<>>}

NextAuthor ==
    \/ \E uid \in UserIds, req \in AuthorRequests, bc \in Broadcasters :
          Create(uid, req, TRUE, bc)
    \/ \E uid \in UserIds, id \in CreatedIds, patch \in Patches : Update(uid, id, patch)
    \/ \E uid \in UserIds, id \in CreatedIds : Delete(uid, id)

SpecAuthor == InitCommon /\ [][NextAuthor]_vars

(***************************************************************************)
(* SpecBroadcast: node q creates articles with a broadcaster attached or   *)
(* not, and the envelopes it publishes reach the replica p.                *)
(***************************************************************************)
NextBroadcast ==
    \/ Tick
    \/ \E uid \in UserIds, req \in Requests, bc \in Broadcasters : Create(uid, req, TRUE, bc)
    \/ \E k \in DOMAIN topic : ReplicaReceive(k)

SpecBroadcast == InitCommon /\ [][NextBroadcast]_vars

(***************************************************************************)
(* SpecGossip: the articles subscription of node q.  The bus (gossipsub,   *)
(* built in NewP2PNode with the strict signature policy) takes the         *)
(* messages q publishes and the messages the peer p sends or forwards,     *)
(* and hands the ones it accepts to the subscription; the loop of          *)
(* subscribeArticles takes them one by one and calls the handlers.         *)
(***************************************************************************)
MaxGossip == 3

MaxSeqno == 2

Self == "q"

\* The handlers registered with OnArticle, in the order of registration.
Handlers == 1..2

\* The mutant: a bus built without the strict policy.
SignaturePolicyLax == "LaxNoSign"

\* NewP2PNode: pubsub.WithMessageSignaturePolicy(pubsub.StrictSign).
SignaturePolicy == "StrictSign"

\* The article an envelope of the topic carries in this specification.
GossipArticle(from) == MkArticle(1, 1, 1, IF from = Self THEN 1 ELSE 2, TRUE)

\* json.Marshal of the ArticleMessage: the bytes of a message, a sequence
\* of one envelope; bytes that are no JSON are the empty sequence.
MarshalMessage(msg) == <<msg>>

Garbage == <<>>

\* json.Unmarshal(msg.Data, &articleMsg) succeeds.
UnmarshalOk(data) == Len(data) = 1

\* The envelope BroadcastArticle of the node `from` builds.
EnvelopeOf(from) == ArticleMessage("new", GossipArticle(from), from)

\* What the peer p can put on the wire to q: messages of its own or
\* messages it forwards under q's name, with a signature that verifies,
\* one that does not, or none, carrying an envelope or bytes that are no
\* JSON.  A signature that verifies under q's key is on a message q
\* published: p cannot make one.
WireMessages(g) ==
    {m \in [from : {Self, "p"}, rf : {"p"}, seqno : 1..MaxSeqno,
            sig : {"valid", "bad", "missing"}, data : {Garbage} \cup
                     {MarshalMessage(EnvelopeOf(f)) : f \in {Self, "p"}}] :
        /\ m.data # Garbage => m.data = MarshalMessage(EnvelopeOf(m.from))
        /\ (m.from = Self /\ m.sig = "valid") =>
               (m.seqno <= g.seqno /\ m.data = MarshalMessage(EnvelopeOf(Self)))}

\* The message id of the bus: the origin and its sequence number.
MsgId(m) == <<m.from, m.seqno>>

\* The bus on receive: under the strict policy a message must carry a
\* signature that verifies (otherwise only a present signature is
\* verified); a message under the node's own name that was not published
\* locally is rejected; a message id already seen is dropped.
BusAccepts(g, m) ==
    /\ IF SignaturePolicy = "StrictSign" THEN m.sig = "valid" ELSE m.sig # "bad"
    /\ ~(m.from = Self /\ m.rf # Self)
    /\ MsgId(m) \notin g.seen

BusPush(g, m) ==
    IF BusAccepts(g, m)
    THEN [g EXCEPT !.seen = @ \cup {MsgId(m)}, !.accepted = Append(@, m),
                   !.n = @ + 1, !.last = {[msg |-> m, verdict |-> "accepted"]}]
    ELSE [g EXCEPT !.n = @ + 1, !.last = {[msg |-> m, verdict |-> "rejected"]}]

\* P2PNode.Publish after BroadcastArticle: the bus signs the message with
\* the node's key, numbers it and delivers it to the local subscription
\* with ReceivedFrom the node itself.
GossipPublish ==
    LET out == BroadcastArticle(topic, "new", GossipArticle(Self), TRUE)
        m == [from |-> Self, rf |-> Self, seqno |-> gossip.seqno + 1, sig |-> "valid",
              data |-> MarshalMessage(out.topic[Len(out.topic)])]
    IN /\ gossip.n < MaxGossip
       /\ gossip.seqno < MaxSeqno
       /\ topic' = out.topic
       /\ gossip' = BusPush([gossip EXCEPT !.seqno = @ + 1], m)
       /\ UNCHANGED <<store, index, indexed, calls, now, lastSync, round, task, handler,
                      best, fails, reply, created, blobs, op, services>>

\* A message arrives from the peer.
GossipReceive(m) ==
    /\ gossip.n < MaxGossip
    /\ gossip' = BusPush(gossip, m)
    /\ UNCHANGED <<store, index, indexed, calls, now, lastSync, round, task, handler,
                   best, fails, reply, created, blobs, topic, op, services>>

\* The mutant: a loop that does not skip the node's own messages.
FromSelfNever(m) == FALSE

\* subscribeArticles: msg.ReceivedFrom == b.node.GetPeerID().
FromSelf(m) == m.rf = Self

\* The messages the loop passes to handleArticleMessage.
Deliverable(m) == ~FromSelf(m) /\ UnmarshalOk(m.data)

\* The mutant: the first handler error ends the call and the loop.
HandleArticleMessageStop(got, m, errs) ==
    [got |-> [h \in Handlers |->
                 IF \A h2 \in Handlers : h2 < h => h2 \notin errs
                 THEN Append(got[h], m) ELSE got[h]],
     alive |-> errs = {}]

\* Broadcaster.handleArticleMessage: every handler is called with the
\* message; an error is logged and the next handler is called.
HandleArticleMessage(got, m, errs) ==
    [got |-> [h \in Handlers |-> Append(got[h], m)], alive |-> TRUE]

\* One turn of the loop of subscribeArticles: sub.Next, the two skips, the
\* handlers; errs are the handlers that return an error for this message.
GossipNext(errs) ==
    LET m == gossip.accepted[gossip.pos + 1]
        out == HandleArticleMessage(gossip.got, m, errs)
    IN /\ gossip.active
       /\ gossip.pos < Len(gossip.accepted)
       /\ Deliverable(m) \/ errs = {}
       /\ gossip' = IF Deliverable(m)
                    THEN [gossip EXCEPT !.pos = @ + 1, !.got = out.got,
                                        !.active = out.alive,
                                        !.errlog = Append(@, errs)]
                    ELSE [gossip EXCEPT !.pos = @ + 1]
       /\ UNCHANGED <<store, index, indexed, calls, now, lastSync, round, task, handler,
                      best, fails, reply, created, blobs, topic, op, services>>

NextGossip ==
    \/ GossipPublish
    \/ \E m \in WireMessages(gossip) : GossipReceive(m)
    \/ \E errs \in SUBSET Handlers : GossipNext(errs)

SpecGossip == InitCommon /\ [][NextGossip]_vars

(***************************************************************************)
(* SpecUpload: ipfs.Client.Add, attempt by attempt.  The daemon answers    *)
(* each shell.Add with a cid or an error; a failed attempt may or may not  *)
(* have read the bytes.Reader the attempts share.                          *)
(***************************************************************************)
MaxUploads == 2

\* AddWithRetry(ctx, reader, 3)
Retries == 3

\* The contents handed to Add: sequences of bytes.
Contents == {<<1>>, <<2, 1>>}

RECURSIVE BytesCode(_)
BytesCode(bytes) ==
    IF bytes = <<>> THEN 1 ELSE 3 * BytesCode(Tail(bytes)) + Head(bytes)

\* The cid the daemon computes for the bytes it reads: a hash of them.
CidOfBytes(bytes) == BytesCode(bytes)

\* The other services, left alone by the blob-store client.
notUpload == <<articles, repos, life, disc, feed, users, keyring, did, later>>

\* Client.Add is called: bytes.NewReader(data), and AddWithRetry begins
\* with i = 0.
AddStart(data, pinContent) ==
    /\ upload.pc \in {"idle", "done"}
    /\ upload.calls < MaxUploads
    /\ upload' = [upload EXCEPT !.pc = "try", !.calls = @ + 1, !.data = data,
                                !.reader = data, !.pin = pinContent, !.attempt = 0,
                                !.slept = <<>>, !.tried = <<>>, !.res = "none",
                                !.cid = 0]
    /\ UNCHANGED notUpload

\* AddWithRetry after a failed attempt: sleep (i+1) seconds unless this was
\* the last attempt, and then the error is returned and Add returns
\* ErrIPFSUploadFailed.
AfterFailure(u) ==
    IF u.attempt < Retries - 1
    THEN [u EXCEPT !.pc = "sleep"]
    ELSE [u EXCEPT !.pc = "done", !.res = "ErrIPFSUploadFailed"]

\* One shell.Add(reader) of the loop: a cid for the bytes left in the
\* reader and the loop returns it, or an error.
AddAttempt(ok, consumed) ==
    /\ upload.pc = "try"
    /\ upload' =
         IF ok
         THEN [upload EXCEPT !.tried = Append(@, "ok"), !.reader = <<>>,
                             !.cid = CidOfBytes(upload.reader),
                             !.pc = IF upload.pin THEN "pin" ELSE "done",
                             !.res = IF upload.pin THEN "none" ELSE "ok"]
         ELSE AfterFailure([upload EXCEPT !.tried = Append(@, "err"),
                                          !.reader = IF consumed THEN <<>> ELSE @])
    /\ UNCHANGED notUpload

\* time.Sleep(time.Duration(i+1) * time.Second), and the next turn.
AddSleep ==
    /\ upload.pc = "sleep"
    /\ upload' = [upload EXCEPT !.pc = "try", !.slept = Append(@, upload.attempt + 1),
                                !.attempt = @ + 1]
    /\ UNCHANGED notUpload

\* Client.Add after the upload: Pin when configured; its failure is logged.
AddPin(ok) ==
    /\ upload.pc = "pin"
    /\ upload' = [upload EXCEPT !.pc = "done", !.res = "ok",
                                !.pinned = IF ok THEN @ \cup {upload.cid} ELSE @]
    /\ UNCHANGED notUpload

NextUpload ==
    \/ \E data \in Contents, pinContent \in BOOLEAN : AddStart(data, pinContent)
    \/ \E ok \in BOOLEAN, consumed \in BOOLEAN : AddAttempt(ok, consumed)
    \/ AddSleep
    \/ \E ok \in BOOLEAN : AddPin(ok)

SpecUpload == InitCommon /\ [][NextUpload]_vars

(***************************************************************************)
(* SpecRepos: the Badger and the SQLite article repository, given the same *)
(* calls one after the other.                                              *)
(***************************************************************************)
\* sqlite.ArticleRepo.Create and scanArticle: the thirteen columns of
\* articleColumns; origin_ip is not among them, and a TIMESTAMP column
\* holds no monotonic clock reading.
SqlRow(a) == [a EXCEPT !.origin = "", !.mono = FALSE]

\* sqlite.ArticleRepo.Create: INSERT; id is the primary key and cid is
\* UNIQUE, and a constraint violation is returned wrapped.
SqlCreate(t, a) ==
    IF a.id \in DOMAIN t \/ \E i \in DOMAIN t : t[i].cid = a.cid
    THEN [table |-> t, err |-> "failed to create article"]
    ELSE [table |-> Put(t, a.id, SqlRow(a)), err |-> "nil"]

\* sqlite.ArticleRepo.Update: title, body, tags, category and updated_at
\* are set, version = version + 1; no row affected is ErrArticleNotFound.
SqlUpdate(t, a) ==
    IF a.id \notin DOMAIN t
    THEN [table |-> t, err |-> "ErrArticleNotFound"]
    ELSE [table |-> [t EXCEPT ![a.id] = [@ EXCEPT !.title = a.title, !.body = a.body,
                                                  !.tags = a.tags, !.cat = a.cat,
                                                  !.ver = @ + 1]],
          err |-> "nil"]

\* sqlite.ArticleRepo.Delete: no row affected is ErrArticleNotFound.
SqlDelete(t, id) ==
    IF id \notin DOMAIN t
    THEN [table |-> t, err |-> "ErrArticleNotFound"]
    ELSE [table |-> Drop(t, id), err |-> "nil"]

\* sqlite.ArticleRepo.GetByID: the row, or ErrArticleNotFound.
SqlGetByID(t, id) ==
    IF id \in DOMAIN t THEN [err |-> "nil", art |-> {t[id]}]
    ELSE [err |-> "ErrArticleNotFound", art |-> {}]

\* sqlite.ArticleRepo.GetByCID
SqlGetByCID(t, cid) ==
    IF \E i \in DOMAIN t : t[i].cid = cid
    THEN [err |-> "nil", art |-> {t[i] : i \in {j \in DOMAIN t : t[j].cid = cid}}]
    ELSE [err |-> "ErrArticleNotFound", art |-> {}]

\* badger.ArticleRepo.GetByID as the caller sees it.
BadgerGetByID(s, id) ==
    IF RepoHas(s, id) THEN [err |-> "nil", art |-> {RepoGetByID(s, id)}]
    ELSE [err |-> "ErrArticleNotFound", art |-> {}]

\* badger.ArticleRepo.GetByCID: the id under article:cid:<cid>, then GetByID.
BadgerGetByCID(s, cid) ==
    IF cid \in DOMAIN s.byCid THEN BadgerGetByID(s, s.byCid[cid])
    ELSE [err |-> "ErrArticleNotFound", art |-> {}]

\* badger.ArticleRepo.Delete as the caller sees it: the error of txn.Get is
\* returned as it is.
BadgerDelete(s, id) ==
    IF RepoHas(s, id) THEN [store |-> RepoDelete(s, id), err |-> "nil"]
    ELSE [store |-> s, err |-> "badger.ErrKeyNotFound"]

\* The ids the repositories are asked about: the ids of the articles and
\* one no article has.
AskedIds == Ids \cup {MaxId + 1}

\* The articles passed to Update: a stored article with another title, or
\* an article of an id the repositories never saw.
UpdateArticles ==
    {[a EXCEPT !.title = "U"] : a \in GoodArticles}
        \cup {[MkArticle(1, 1, 1, 1, TRUE) EXCEPT !.id = MaxId + 1]}

MaxRepoCalls == 4

notRepos == <<articles, upload, life, disc, feed, users, keyring, did, later>>

BothCreate(a) ==
    LET out == SqlCreate(repos.sqlite, a) IN
    /\ repos.n < MaxRepoCalls
    /\ repos' = [badger |-> RepoCreate(repos.badger, a), sqlite |-> out.table,
                 call |-> "Create", n |-> repos.n + 1,
                 res |-> [badger |-> "nil", sqlite |-> out.err]]
    /\ UNCHANGED notRepos

BothUpdate(a) ==
    LET out == SqlUpdate(repos.sqlite, a) IN
    /\ repos.n < MaxRepoCalls
    /\ repos' = [badger |-> RepoUpdate(repos.badger, a), sqlite |-> out.table,
                 call |-> "Update", n |-> repos.n + 1,
                 res |-> [badger |-> "nil", sqlite |-> out.err]]
    /\ UNCHANGED notRepos

BothDelete(id) ==
    LET outB == BadgerDelete(repos.badger, id)
        outS == SqlDelete(repos.sqlite, id)
    IN /\ repos.n < MaxRepoCalls
       /\ repos' = [badger |-> outB.store, sqlite |-> outS.table,
                    call |-> "Delete", n |-> repos.n + 1,
                 res |-> [badger |-> outB.err, sqlite |-> outS.err]]
       /\ UNCHANGED notRepos

NextRepos ==
    \/ \E a \in GoodArticles : BothCreate(a)
    \/ \E a \in UpdateArticles : BothUpdate(a)
    \/ \E id \in AskedIds : BothDelete(id)

SpecRepos == InitCommon /\ [][NextRepos]_vars

(***************************************************************************)
(* SpecLife: the long-lived tasks of node q and their shutdown.  The       *)
(* pull-sync loop and its rounds (p2p.SyncService), the four subscriber    *)
(* loops of the Broadcaster, and the loop of the feed sync service; Stop   *)
(* of each, and the cancellation of the root context.  The peers answer a  *)
(* sync stream when they choose to.                                        *)
(***************************************************************************)
Subscribers == {"articles", "feeds", "votes", "moderation"}

notLife == <<articles, upload, repos, disc, feed, users, keyring, did, later>>

\* The peers connected when TriggerSync is called.
TriggerPeers == {"p"}

RoundOver(tasks) == \A p \in Peers : tasks[p] \in {"off", "done"}

\* syncWithPeers starts one goroutine per connected peer.
StartRound(connected) ==
    [life EXCEPT !.loop = "round",
                 !.task = [p \in Peers |-> IF p \in connected THEN "open" ELSE "off"]]

\* syncLoop after the initial sleep of five seconds: the first round.
LoopStart(connected) ==
    /\ life.loop = "sleep"
    /\ life' = StartRound(connected)
    /\ UNCHANGED notLife

\* syncLoop: case <-ticker.C, a round.
LoopTick(connected) ==
    /\ life.loop = "select"
    /\ life' = StartRound(connected)
    /\ UNCHANGED notLife

\* TriggerSync: go s.syncWithPeers(), outside the WaitGroup of the service.
TriggerSync(connected) ==
    /\ RoundOver(life.trig)
    /\ ~life.triggered
    /\ life' = [life EXCEPT !.triggered = TRUE,
                            !.trig = [p \in Peers |-> IF p \in connected THEN "open"
                                                      ELSE "off"]]
    /\ UNCHANGED notLife

\* syncWithPeer: NewStream under the context of the service, which fails
\* once the context is cancelled and fails or succeeds before; then the
\* request is written and the goroutine reads the response.
OpenStream(tasks, p, ok) ==
    [tasks EXCEPT ![p] = IF ok /\ ~life.cancelled THEN "read" ELSE "done"]

\* syncWithPeer in decoder.Decode(&resp): the stream has no deadline and
\* the read returns when the peer answers, closes or resets the stream.
AwaitsPeer(tasks, p) == tasks[p] = "read"

TaskOpen(p, ok) ==
    /\ life.task[p] = "open"
    /\ life' = [life EXCEPT !.task = OpenStream(@, p, ok)]
    /\ UNCHANGED notLife

TrigOpen(p, ok) ==
    /\ life.trig[p] = "open"
    /\ life' = [life EXCEPT !.trig = OpenStream(@, p, ok)]
    /\ UNCHANGED notLife

\* The peer answers, closes or resets the stream: the read returns, the
\* articles are handled and the goroutine ends.
PeerAnswers(p) ==
    /\ \/ /\ AwaitsPeer(life.task, p)
          /\ life' = [life EXCEPT !.task[p] = "done"]
       \/ /\ AwaitsPeer(life.trig, p)
          /\ life' = [life EXCEPT !.trig[p] = "done"]
    /\ UNCHANGED notLife

\* syncWithPeers after wg.Wait: lastSync is set and the loop is back in its
\* select.
RoundEnd ==
    /\ life.loop = "round"
    /\ RoundOver(life.task)
    /\ life' = [life EXCEPT !.loop = "select"]
    /\ UNCHANGED notLife

\* The round TriggerSync started, after its own wg.Wait: lastSync is set
\* when the round had peers, and the goroutine ends.
TrigEnd ==
    /\ life.triggered
    /\ ~life.trigEnded
    /\ RoundOver(life.trig)
    /\ life' = [life EXCEPT !.trigEnded = TRUE]
    /\ UNCHANGED notLife

\* syncLoop: case <-s.ctx.Done(): return, and the deferred wg.Done.
LoopExit ==
    /\ life.loop = "select"
    /\ life.cancelled
    /\ life' = [life EXCEPT !.loop = "exit"]
    /\ UNCHANGED notLife

\* p2p.SyncService.Stop: s.cancel(), then s.wg.Wait().
StopSync ==
    /\ life.stopSync = "no"
    /\ life' = [life EXCEPT !.cancelled = TRUE, !.stopSync = "wait"]
    /\ UNCHANGED notLife

StopSyncReturns ==
    /\ life.stopSync = "wait"
    /\ life.loop = "exit"
    /\ life' = [life EXCEPT !.stopSync = "ret"]
    /\ UNCHANGED notLife

\* A subscriber loop: sub.Next(b.ctx) returns an error once the context is
\* cancelled, b.ctx.Err() is not nil and the loop returns.
SubscriberExit(t) ==
    /\ life.subs[t] = "next"
    /\ life.bcancelled
    /\ life' = [life EXCEPT !.subs[t] = "exit"]
    /\ UNCHANGED notLife

\* Broadcaster.Stop: b.cancel(), then b.wg.Wait().
StopBroadcaster ==
    /\ life.stopB = "no"
    /\ life' = [life EXCEPT !.bcancelled = TRUE, !.stopB = "wait"]
    /\ UNCHANGED notLife

StopBroadcasterReturns ==
    /\ life.stopB = "wait"
    /\ \A t \in Subscribers : life.subs[t] = "exit"
    /\ life' = [life EXCEPT !.stopB = "ret"]
    /\ UNCHANGED notLife

\* service.SyncService.Start: the initial syncAllFeeds, after which the loop
\* is in its select; a tick runs syncAllFeeds and comes back to it.
FeedLoopSync ==
    /\ life.feedloop = "init"
    /\ life' = [life EXCEPT !.feedloop = "select"]
    /\ UNCHANGED notLife

\* service.SyncService.Start: case <-s.stopChan, case <-ctx.Done(): return.
FeedLoopExit ==
    /\ life.feedloop = "select"
    /\ life.stopChan \/ life.root
    /\ life' = [life EXCEPT !.feedloop = "exit"]
    /\ UNCHANGED notLife

\* service.SyncService.Stop: close(s.stopChan); it waits for nothing.
StopFeed ==
    /\ life.stopF = "no"
    /\ life' = [life EXCEPT !.stopChan = TRUE, !.stopF = "ret"]
    /\ UNCHANGED notLife

\* The root context of main is cancelled.
CancelRoot ==
    /\ ~life.root
    /\ life' = [life EXCEPT !.root = TRUE]
    /\ UNCHANGED notLife

NextLife ==
    \/ \E connected \in SUBSET Peers : LoopStart(connected)
    \/ \E connected \in SUBSET Peers : LoopTick(connected)
    \/ \E connected \in SUBSET TriggerPeers : TriggerSync(connected)
    \/ \E p \in Peers, ok \in BOOLEAN : TaskOpen(p, ok)
    \/ \E p \in Peers, ok \in BOOLEAN : TrigOpen(p, ok)
    \/ \E p \in Peers : PeerAnswers(p)
    \/ RoundEnd
    \/ TrigEnd
    \/ LoopExit
    \/ StopSync
    \/ StopSyncReturns
    \/ \E t \in Subscribers : SubscriberExit(t)
    \/ StopBroadcaster
    \/ StopBroadcasterReturns
    \/ FeedLoopSync
    \/ FeedLoopExit
    \/ StopFeed
    \/ CancelRoot

SpecLife == InitCommon /\ [][NextLife]_vars

\* Every goroutine of the node that can take a step takes it, every Stop is
\* called and the root context is cancelled; a select with the cancelled
\* context ready chooses it sooner or later.  Nothing obliges a peer to
\* answer.
FairLife ==
    /\ SpecLife
    /\ WF_vars(\E connected \in SUBSET Peers : LoopStart(connected))
    /\ WF_vars(\E p \in Peers, ok \in BOOLEAN : TaskOpen(p, ok))
    /\ WF_vars(\E p \in Peers, ok \in BOOLEAN : TrigOpen(p, ok))
    /\ WF_vars(RoundEnd)
    /\ SF_vars(LoopExit)
    /\ WF_vars(StopSync)
    /\ WF_vars(StopSyncReturns)
    /\ \A t \in Subscribers : WF_vars(SubscriberExit(t))
    /\ WF_vars(StopBroadcaster)
    /\ WF_vars(StopBroadcasterReturns)
    /\ WF_vars(FeedLoopSync)
    /\ SF_vars(FeedLoopExit)
    /\ WF_vars(StopFeed)
    /\ WF_vars(CancelRoot)

(***************************************************************************)
(* SpecCache: the bootstrap cache of the auto-discovery.  Bootstrap        *)
(* servers are discovered, Stop saves the known set to the cache file, and *)
(* a new AutoDiscovery loads the file.                                     *)
(***************************************************************************)
Bootstraps == {"b1", "b2"}

\* The number of times the wall clock of the discovery is advanced.
MaxCacheTicks == 4

\* The steps the clock is advanced by: a second, or a second less than a
\* day.
ClockSteps == {1, DaySeconds - 1}

notDisc == <<articles, upload, repos, life, feed, users, keyring, did, later>>

\* discoverBootstraps, AddBootstrapPeer: the entry is known, seen now.
Discover(b) ==
    /\ disc' = [disc EXCEPT !.known = Put(@, b, [peer |-> b, lastSeen |-> disc.clock]),
                            !.last = "discover"]
    /\ disc'.known # disc.known
    /\ UNCHANGED notDisc

CacheTick(step) ==
    /\ disc.ticks < MaxCacheTicks
    /\ disc' = [disc EXCEPT !.clock = @ + step, !.ticks = @ + 1, !.last = "tick"]
    /\ UNCHANGED notDisc

\* AutoDiscovery.saveCache: the known set, marshalled, replaces the file.
SaveCache ==
    /\ disc.known # <<>>
    /\ disc' = [disc EXCEPT !.file = disc.known, !.readable = TRUE, !.last = "save"]
    /\ disc'.file # disc.file
    /\ UNCHANGED notDisc

\* The mutant: a load that keeps every entry of the file.
LoadCacheAll(file, clockNow) == file

\* AutoDiscovery.loadCache into the empty known set of NewAutoDiscovery:
\* the entries with time.Since(LastSeen) < 24h.
LoadCache(file, clockNow) ==
    [b \in {k \in DOMAIN file : clockNow - file[k].lastSeen < DaySeconds} |-> file[b]]

\* NewAutoDiscovery: an empty known set, and loadCache; a file that is
\* missing or does not parse leaves the set empty.
Restart(parses) ==
    /\ disc.file # <<>>
    /\ disc' = [disc EXCEPT !.known = IF parses THEN LoadCache(disc.file, disc.clock)
                                      ELSE <<>>,
                            !.loadedAt = disc.clock,
                            !.last = IF parses THEN "load" ELSE "noload"]
    /\ UNCHANGED notDisc

NextCache ==
    \/ \E b \in Bootstraps : Discover(b)
    \/ \E step \in ClockSteps : CacheTick(step)
    \/ SaveCache
    \/ \E parses \in BOOLEAN : Restart(parses)

SpecCache == InitCommon /\ [][NextCache]_vars

(***************************************************************************)
(* SpecReconnect: node q has lost its peers and knows some bootstrap       *)
(* servers, at least one of which can be reached.  Time is counted in      *)
(* seconds, in steps of five; the peer maintenance loop ticks every        *)
(* PeerDiscoveryInterval and runs connectToBootstraps, which dials the     *)
(* known servers one after the other.                                      *)
(***************************************************************************)
MaxKnown == 6

TimeStep == 5

PeerDiscoveryInterval == 15

BootstrapCheckInterval == 30

MinDesiredPeers == 3

\* connectToBootstraps: context.WithTimeout(ad.ctx, 10*time.Second)
ConnectTimeout == 10

KnownServers == 1..MaxKnown

\* The peer count of the host drops to 0.  The servers that can be reached
\* stay so; the next tick of the maintenance loop is due in `phase`
\* seconds, at once when the disconnect notification starts
\* connectToBootstraps.
PeersLost(reach, phase) ==
    /\ disc.walk = "none"
    /\ reach # {}
    /\ disc' = [disc EXCEPT !.walk = "idle", !.reach = reach, !.tickIn = phase,
                            !.last = "lost"]
    /\ UNCHANGED notDisc

\* peerMaintenanceLoop: case <-ticker.C with fewer than MinDesiredPeers
\* peers: connectToBootstraps copies the known set.
WalkStart ==
    /\ disc.walk = "idle"
    /\ disc.tickIn = 0
    /\ Cardinality(disc.conn) < MinDesiredPeers
    /\ disc' = [disc EXCEPT !.walk = "pick", !.todo = KnownServers,
                            !.tickIn = PeerDiscoveryInterval, !.last = "walk"]
    /\ UNCHANGED notDisc

\* host.Connect under the ten-second context: a server that can be reached
\* answers at once or within five seconds; one that cannot refuses at once
\* or lets the dial run into the timeout.
DialTimes(b) == IF b \in disc.reach THEN {0, TimeStep} ELSE {0, ConnectTimeout}

\* connectToBootstraps: the next server of the map, in an order the map
\* chooses; a connected one is skipped, another is dialled.
WalkPick(b, dur) ==
    /\ disc.walk = "pick"
    /\ b \in disc.todo
    /\ dur \in DialTimes(b)
    /\ disc' = IF b \in disc.conn
               THEN [disc EXCEPT !.todo = @ \ {b}, !.last = "skip"]
               ELSE [disc EXCEPT !.walk = "dial", !.cur = b, !.left = dur,
                                 !.todo = @ \ {b}, !.last = "dial"]
    /\ UNCHANGED notDisc

\* host.Connect returns: connected, or the error is logged and the loop
\* goes on.
WalkDialEnd ==
    /\ disc.walk = "dial"
    /\ disc.left = 0
    /\ disc' = [disc EXCEPT !.walk = "pick", !.cur = 0,
                            !.conn = IF disc.cur \in disc.reach THEN @ \cup {disc.cur}
                                     ELSE @,
                            !.last = "dialled"]
    /\ UNCHANGED notDisc

\* connectToBootstraps returns and the loop is back in its select.
WalkEnd ==
    /\ disc.walk = "pick"
    /\ disc.todo = {}
    /\ disc' = [disc EXCEPT !.walk = "idle", !.last = "walked"]
    /\ UNCHANGED notDisc

\* Five seconds pass while the loop waits for its ticker or for a dial; the
\* clock stops one step after two bootstrap-check intervals.
ReconnectTime ==
    /\ \/ disc.walk = "dial" /\ disc.left > 0
       \/ disc.walk = "idle" /\ disc.tickIn > 0
    /\ disc.t <= 2 * BootstrapCheckInterval
    /\ disc' = [disc EXCEPT !.t = @ + TimeStep,
                            !.left = IF @ > 0 THEN @ - TimeStep ELSE 0,
                            !.tickIn = IF @ > 0 THEN @ - TimeStep ELSE 0,
                            !.last = "time"]
    /\ UNCHANGED notDisc

NextReconnect ==
    \/ \E reach \in SUBSET KnownServers, phase \in {0, PeerDiscoveryInterval} :
           PeersLost(reach, phase)
    \/ WalkStart
    \/ \E b \in KnownServers, dur \in {0, TimeStep, ConnectTimeout} : WalkPick(b, dur)
    \/ WalkDialEnd
    \/ WalkEnd
    \/ ReconnectTime

SpecReconnect == InitCommon /\ [][NextReconnect]_vars

(***************************************************************************)
(* SpecFeed: the feed sync service of node q (service.SyncService) syncs   *)
(* one feed again and again while articles arrive through the ingest path. *)
(* A manifest is addressed by its content: its CID is the pair of its CID  *)
(* list and its last_updated time.                                         *)
(***************************************************************************)
MaxFeedSyncs == 3

\* syncFeed: s.articleRepo.ListRecent(ctx, 100)
ManifestLimit == 100

notFeed == <<now, lastSync, round, task, handler, best, fails, reply, created, blobs,
             topic, gossip, op, upload, repos, life, disc, users, keyring, did, later>>

\* domain.FeedManifest of the listed articles, built at time t.
BuildManifest(listed, t) ==
    [version |-> "1.0", articles |-> [i \in 1..Len(listed) |-> listed[i].cid],
     last_updated |-> t, total_count |-> Len(listed)]

\* The CID the blob store gives the serialized manifest.
ManifestCid(m) == <<m.articles, m.last_updated, m.total_count>>

\* The articles that arrive: every id in its versions, a later version
\* carrying a later timestamp.
FeedArticles == {MkArticle(i, v, v, 1, TRUE) : i \in Ids, v \in Vers}

\* An article arrives while no step of the feed sync is being taken.
FeedIngest(a) ==
    /\ Ingest(a)
    /\ UNCHANGED feed

\* syncFeed up to json.Marshal: the recent articles are listed and the
\* manifest is built; the clock may have advanced since the last sync.
FeedList(adv) ==
    /\ feed.pc = "idle"
    /\ feed.n < MaxFeedSyncs
    /\ LET listed == ListRecent(store["q"], ManifestLimit)
           m == BuildManifest(listed, feed.clock + adv)
       IN feed' = [feed EXCEPT !.pc = "upload", !.n = @ + 1, !.clock = @ + adv,
                               !.manifest = m, !.cid = ManifestCid(m),
                               !.listed = listed,
                               !.held = {store["q"].byId[i] : i \in DOMAIN store["q"].byId},
                               !.before = [rec |-> feed.rec, pinned |-> feed.pinned],
                               !.trail = <<>>, !.res = "running"]
    /\ UNCHANGED <<store, index, indexed, calls, notFeed>>

\* s.ipfsClient.Add: the manifest is uploaded and pinned (a pin that fails
\* is only logged), or the upload fails and syncFeed returns.
FeedUpload(ok, pinOk) ==
    /\ feed.pc = "upload"
    /\ feed' = IF ok
               THEN [feed EXCEPT !.pc = "publish", !.trail = Append(@, "upload"),
                                 !.added = @ \cup {feed.cid},
                                 !.pinned = IF pinOk THEN @ \cup {feed.cid} ELSE @]
               ELSE [feed EXCEPT !.pc = "idle", !.res = "upload failed"]
    /\ UNCHANGED <<store, index, indexed, calls, notFeed>>

\* The mutant: a publication whose failure does not end the sync.
FeedPublishGoesOn(ok) ==
    /\ feed.pc = "publish"
    /\ feed' = IF ok
               THEN [feed EXCEPT !.pc = "unpin", !.trail = Append(@, "publish"),
                                 !.pointer = feed.cid]
               ELSE [feed EXCEPT !.pc = "unpin", !.res = "publish failed"]
    /\ UNCHANGED <<store, index, indexed, calls, notFeed>>

\* s.ipnsManager.Publish: the pointer of the feed's key names the new
\* manifest, or the publication fails and syncFeed returns.
FeedPublish(ok) ==
    /\ feed.pc = "publish"
    /\ feed' = IF ok
               THEN [feed EXCEPT !.pc = "unpin", !.trail = Append(@, "publish"),
                                 !.pointer = feed.cid]
               ELSE [feed EXCEPT !.pc = "idle", !.res = "publish failed"]
    /\ UNCHANGED <<store, index, indexed, calls, notFeed>>

\* The old manifest, if there is one and it is another, is unpinned; a
\* failure is logged.
FeedUnpin(ok) ==
    /\ feed.pc = "unpin"
    /\ feed' = IF feed.rec.lastCID # <<>> /\ feed.rec.lastCID # feed.cid
               THEN [feed EXCEPT !.pc = "record", !.trail = Append(@, "unpin"),
                                 !.pinned = IF ok THEN @ \ {feed.rec.lastCID} ELSE @]
               ELSE [feed EXCEPT !.pc = "record"]
    /\ UNCHANGED <<store, index, indexed, calls, notFeed>>

\* feed.LastCID, LastSync and IPNSAddress are set and s.feedRepo.Update
\* writes the record, or fails.
FeedRecord(ok) ==
    /\ feed.pc = "record"
    /\ feed' = IF ok
               THEN [feed EXCEPT !.pc = "idle", !.trail = Append(@, "record"),
                                 !.rec = [lastCID |-> feed.cid, ipns |-> "/ipns/k",
                                          lastSync |-> feed.clock],
                                 !.res = IF feed.res = "running" THEN "nil" ELSE @]
               ELSE [feed EXCEPT !.pc = "idle",
                                 !.res = IF feed.res = "running" THEN "update failed" ELSE @]
    /\ UNCHANGED <<store, index, indexed, calls, notFeed>>

NextFeed ==
    \/ \E a \in FeedArticles : FeedIngest(a)
    \/ \E adv \in {0, 1} : FeedList(adv)
    \/ \E ok \in BOOLEAN, pinOk \in BOOLEAN : FeedUpload(ok, pinOk)
    \/ \E ok \in BOOLEAN : FeedPublish(ok)
    \/ \E ok \in BOOLEAN : FeedUnpin(ok)
    \/ \E ok \in BOOLEAN : FeedRecord(ok)

SpecFeed == InitCommon /\ [][NextFeed]_vars

(***************************************************************************)
(* SpecUsers: UserService.Register over the Badger user repository, called *)
(* by two requests at a time.  A user is kept under user:id:<id>, with the *)
(* index keys user:username:<lowercase name> and user:email:<lowercase     *)
(* email> holding the id.                                                  *)
(***************************************************************************)
MaxRegisters == 4

\* Register: len(req.Password) < 8
MinPasswordLen == 8

RegThreads == {"h1", "h2"}

Usernames == {"alice", "Alice", "bob"}

Emails == {"", "a@x"}

\* strings.ToLower on the names and emails of the model.
ToLower(str) == IF str = "Alice" THEN "alice" ELSE str

RegisterRequests ==
    [username : Usernames, email : Emails, pwlen : {MinPasswordLen - 1, MinPasswordLen}]

notUsers == <<articles, upload, repos, life, disc, feed, keyring, did, later>>

\* The mutant: a lookup under the name as it was typed.
ExistsByUsernameExact(db, username) == username \in DOMAIN db.byUsername

\* badger.UserRepo.ExistsByUsername
ExistsByUsername(db, username) == ToLower(username) \in DOMAIN db.byUsername

\* badger.UserRepo.ExistsByEmail
ExistsByEmail(db, email) == email # "" /\ ToLower(email) \in DOMAIN db.byEmail

\* badger.UserRepo.Create: one transaction that checks the two index keys
\* and sets the user and its index keys.
UserCreate(db, u) ==
    IF ToLower(u.username) \in DOMAIN db.byUsername
    THEN [db |-> db, err |-> "ErrUserAlreadyExists"]
    ELSE IF u.email # "" /\ ToLower(u.email) \in DOMAIN db.byEmail
    THEN [db |-> db, err |-> "ErrUserAlreadyExists"]
    ELSE [db |-> [byId |-> Put(db.byId, u.id, u),
                  byUsername |-> Put(db.byUsername, ToLower(u.username), u.id),
                  byEmail |-> IF u.email # "" THEN Put(db.byEmail, ToLower(u.email), u.id)
                              ELSE db.byEmail],
          err |-> "nil"]

\* Register up to the username check: the password length, then
\* ExistsByUsername.
RegisterCheck(t, req) ==
    /\ users.reg[t].pc \in {"idle", "done"}
    /\ users.n < MaxRegisters
    /\ LET taken == ToLower(req.username) \in DOMAIN users.db.byUsername
           call == [pc |-> "email", req |-> req, taken |-> taken, res |-> "none",
                    wrote |-> FALSE]
       IN users' = [users EXCEPT
              !.n = @ + 1,
              !.reg[t] = IF req.pwlen < MinPasswordLen
                         THEN [call EXCEPT !.pc = "done", !.res = "password too short"]
                         ELSE IF ExistsByUsername(users.db, req.username)
                         THEN [call EXCEPT !.pc = "done", !.res = "ErrUserAlreadyExists"]
                         ELSE call]
    /\ UNCHANGED notUsers

\* Register: ExistsByEmail when an email is given.
RegisterEmail(t) ==
    /\ users.reg[t].pc = "email"
    /\ users' = [users EXCEPT
           !.reg[t] = IF ExistsByEmail(users.db, users.reg[t].req.email)
                      THEN [@ EXCEPT !.pc = "done", !.res = "ErrUserAlreadyExists"]
                      ELSE [@ EXCEPT !.pc = "create"]]
    /\ UNCHANGED notUsers

\* Register from the key pair to the end: a fresh peer id, the password
\* hash, the encrypted key, userRepo.Create; an error of Create is wrapped.
RegisterCreate(t) ==
    /\ users.reg[t].pc = "create"
    /\ LET req == users.reg[t].req
           user == [id |-> users.nextId, username |-> req.username, email |-> req.email,
                    hash |-> req.pwlen, active |-> TRUE]
           out == UserCreate(users.db, user)
       IN users' = [users EXCEPT
              !.db = out.db,
              !.nextId = @ + 1,
              !.first = IF out.err = "nil" THEN Put(@, ToLower(req.username), user) ELSE @,
              !.reg[t] = [@ EXCEPT !.pc = "done",
                                   !.wrote = out.err = "nil",
                                   !.res = IF out.err = "nil" THEN "nil"
                                           ELSE "failed to create user"]]
    /\ UNCHANGED notUsers

NextUsers ==
    \/ \E t \in RegThreads, req \in RegisterRequests : RegisterCheck(t, req)
    \/ \E t \in RegThreads : RegisterEmail(t)
    \/ \E t \in RegThreads : RegisterCreate(t)

SpecUsers == InitCommon /\ [][NextUsers]_vars

(***************************************************************************)
(* SpecKeys: crypto.EncryptPrivateKey and crypto.DecryptPrivateKey.  The   *)
(* byte strings are kept by their parts and their lengths; PBKDF2 and      *)
(* AES-GCM are ideal: two (password, salt) pairs derive two keys, and a    *)
(* sealed text opens under the key and the nonce it was sealed with only.  *)
(***************************************************************************)
MaxKeyOps == 3

SaltSize == 16

NonceSize == 12

\* ed25519.PrivateKeySize
PrivateKeySize == 64

\* The size of the tag gcm.Seal appends.
GcmTagSize == 16

\* Private keys as GenerateKeyPair makes them.
PrivateKeys == {[id |-> k, len |-> PrivateKeySize] : k \in {"k1", "k2"}}

\* The passwords: the password hashes of two users, and the empty string.
KeyPasswords == {"h1", "h2", ""}

Salts == {1, 2}

Nonces == {1, 2}

NoKey == [id |-> "none", len |-> 0]

notKeys == <<articles, upload, repos, life, disc, feed, users, did, later>>

\* pbkdf2.Key(password, salt, PBKDF2Iterations, KeySize, sha256.New)
PBKDF2(password, salt) == <<password, salt>>

\* gcm.Seal(nil, nonce, plaintext, nil): the ciphertext with its tag.
GcmSeal(key, nonce, plaintext) ==
    [key |-> key, nonce |-> nonce, text |-> plaintext, len |-> plaintext.len + GcmTagSize]

\* The mutant: a cipher without authentication, which opens under any key.
GcmOpenAny(key, nonce, sealed) == [ok |-> TRUE, text |-> sealed.text]

\* gcm.Open(nil, nonce, ciphertext, nil): the plaintext, or an error when
\* the tag does not match.
GcmOpen(key, nonce, sealed) ==
    IF sealed.key = key /\ sealed.nonce = nonce
    THEN [ok |-> TRUE, text |-> sealed.text]
    ELSE [ok |-> FALSE, text |-> NoKey]

\* base64.StdEncoding.EncodeToString and DecodeString
Base64Encode(bytes) == [b64 |-> bytes]

Base64Decode(str) == str.b64

\* crypto.EncryptPrivateKey, with the salt and the nonce it draws:
\* base64(salt || nonce || ciphertext).
EncryptPrivateKeyWith(privateKey, password, salt, nonce) ==
    LET sealed == GcmSeal(PBKDF2(password, salt), nonce, privateKey)
    IN Base64Encode([salt |-> salt, nonce |-> nonce, sealed |-> sealed,
                     len |-> SaltSize + NonceSize + sealed.len])

\* crypto.DecryptPrivateKey
DecryptPrivateKey(encrypted, password) ==
    LET combined == Base64Decode(encrypted)
        minSize == SaltSize + NonceSize + PrivateKeySize + GcmTagSize
        opened == GcmOpen(PBKDF2(password, combined.salt), combined.nonce, combined.sealed)
    IN IF combined.len < minSize THEN [key |-> NoKey, err |-> "encrypted data too short"]
       ELSE IF ~opened.ok THEN [key |-> NoKey, err |-> "failed to decrypt"]
       ELSE IF opened.text.len # PrivateKeySize
            THEN [key |-> NoKey, err |-> "invalid private key size after decryption"]
       ELSE [key |-> opened.text, err |-> "nil"]

\* A private key is encrypted and the result is kept.
KeyEncrypt(privateKey, password, salt, nonce) ==
    /\ keyring.n < MaxKeyOps
    /\ keyring' = [keyring EXCEPT
           !.n = @ + 1,
           !.plain = privateKey, !.password = password,
           !.encrypted = {EncryptPrivateKeyWith(privateKey, password, salt, nonce)},
           !.tried = "none", !.out = [key |-> NoKey, err |-> "none"]]
    /\ UNCHANGED notKeys

\* The kept result is decrypted under a password.
KeyDecrypt(password) ==
    /\ keyring.n < MaxKeyOps
    /\ \E e \in keyring.encrypted :
           keyring' = [keyring EXCEPT
               !.n = @ + 1,
               !.tried = password, !.out = DecryptPrivateKey(e, password),
               !.opened = @ \cup (IF DecryptPrivateKey(e, password).err = "nil"
                                  THEN {password} ELSE {})]
    /\ UNCHANGED notKeys

NextKeys ==
    \/ \E k \in PrivateKeys, pw \in KeyPasswords, salt \in Salts, nonce \in Nonces :
           KeyEncrypt(k, pw, salt, nonce)
    \/ \E pw \in KeyPasswords : KeyDecrypt(pw)

SpecKeys == InitCommon /\ [][NextKeys]_vars

(***************************************************************************)
(* SpecDid: p2p.DIDAuth.  The challenges map has no lock: calls of         *)
(* VerifyAuthResponse made by two goroutines interleave between the checks *)
(* and the delete, and the cleanup goroutine GenerateChallenge starts      *)
(* runs beside them.  Time is counted in minutes, in steps of five.                          *)
(***************************************************************************)
MaxChallenges == 2

MaxDidTicks == 3

MaxVerifies == 2

\* VerifyAuthResponse: time.Since(challenge.Timestamp) > 5*time.Minute
ChallengeExpiry == 5

\* cleanupOldChallenges: time.Since(authChallenge.Timestamp) > 10*time.Minute
ChallengeCleanup == 10

DidThreads == {"v1", "v2"}

Dids == {"did:a", "did:b"}

DidKeys == {"ka", "kb"}

notDid == <<articles, upload, repos, life, disc, feed, users, keyring, later>>

\* fmt.Sprintf("%s:%s:%d", challenge.Challenge, challenge.DID,
\* challenge.Timestamp.Unix())
ChallengeMessage(c, d, ts) == <<c, d, ts>>

\* SignChallenge by the holder of key k over the challenge as it was given
\* out, the DID of the response set by the sender.
AuthResponses(issued) ==
    {[challenge |-> c, did |-> d,
      signature |-> [key |-> k, msg |-> ChallengeMessage(c, sd, issued[c].ts)]] :
        c \in DOMAIN issued, d \in Dids, sd \in Dids, k \in DidKeys}
    \cup {[challenge |-> 0, did |-> "did:a",
           signature |-> [key |-> "ka", msg |-> ChallengeMessage(0, "did:a", 0)]]}

\* ed25519.Verify(publicKey, message, signature)
VerifyChallengeSig(publicKey, message, signature) ==
    signature.key = publicKey /\ signature.msg = message

\* Five minutes pass.
DidTick ==
    /\ ~did.crashed
    /\ did.ticks < MaxDidTicks
    /\ did' = [did EXCEPT !.ticks = @ + 1, !.clock = @ + ChallengeExpiry]
    /\ UNCHANGED notDid

\* DIDAuth.GenerateChallenge: a fresh random challenge is put into the map
\* and the cleanup goroutine is started.
GenerateChallenge(d) ==
    /\ ~did.crashed
    /\ did.next <= MaxChallenges
    /\ did' = [did EXCEPT
           !.challenges = Put(@, did.next, [ts |-> did.clock, did |-> d]),
           !.issued = Put(@, did.next, [ts |-> did.clock, did |-> d]),
           !.next = @ + 1,
           !.cleaning = TRUE]
    /\ UNCHANGED notDid

\* cleanupOldChallenges, run to its end by its goroutine.
CleanupOldChallenges ==
    /\ ~did.crashed
    /\ did.cleaning
    /\ did' = [did EXCEPT
           !.challenges = [c \in {x \in DOMAIN @ : did.clock - @[x].ts <= ChallengeCleanup}
                               |-> @[c]],
           !.cleaning = FALSE]
    /\ UNCHANGED notDid

\* The runtime finds the map iterated by the cleanup goroutine while a
\* caller writes it: fatal error, the process ends.
MapRaceFatal ==
    /\ ~did.crashed
    /\ did.cleaning
    /\ \E t \in DidThreads : did.verify[t].pc = "accept"
    /\ did' = [did EXCEPT !.crashed = TRUE]
    /\ UNCHANGED notDid

\* VerifyAuthResponse up to the signature check: the lookup, the expiry
\* (an expired challenge is deleted), the DID and the signature.
VerifyCheck(t, response, publicKey) ==
    /\ ~did.crashed
    /\ did.verify[t].pc \in {"idle", "done"}
    /\ did.calls < MaxVerifies
    /\ LET known == response.challenge \in DOMAIN did.challenges
           challenge == did.challenges[response.challenge]
           call == [pc |-> "done", response |-> <<>>, key |-> "none", at |-> 0,
                    res |-> "none"]
       IN did' = [did EXCEPT
              !.calls = @ + 1,
              !.challenges = IF known /\ did.clock - challenge.ts > ChallengeExpiry
                             THEN Drop(@, response.challenge) ELSE @,
              !.verify[t] =
                  IF ~known THEN [call EXCEPT !.res = "challenge not found"]
                  ELSE IF did.clock - challenge.ts > ChallengeExpiry
                       THEN [call EXCEPT !.res = "challenge expired"]
                  ELSE IF challenge.did # response.did
                       THEN [call EXCEPT !.res = "DID mismatch"]
                  ELSE IF ~VerifyChallengeSig(publicKey,
                              ChallengeMessage(response.challenge, challenge.did, challenge.ts),
                              response.signature)
                       THEN [call EXCEPT !.res = "signature verification failed"]
                  ELSE [call EXCEPT !.pc = "accept", !.response = response,
                                    !.key = publicKey, !.at = did.clock]]
    /\ UNCHANGED notDid

\* VerifyAuthResponse: delete(da.challenges, response.Challenge); return
\* true.
VerifyAccept(t) ==
    /\ ~did.crashed
    /\ did.verify[t].pc = "accept"
    /\ LET c == did.verify[t].response.challenge IN
       did' = [did EXCEPT
           !.challenges = Drop(@, c),
           !.accepts = Put(@, c, Count(@, c) + 1),
           !.accepted = @ \cup {[response |-> did.verify[t].response,
                                 key |-> did.verify[t].key, at |-> did.verify[t].at]},
           !.verify[t] = [@ EXCEPT !.pc = "done", !.res = "true"]]
    /\ UNCHANGED notDid

NextDid ==
    \/ DidTick
    \/ \E d \in Dids : GenerateChallenge(d)
    \/ CleanupOldChallenges
    \/ MapRaceFatal
    \/ \E t \in DidThreads, k \in DidKeys :
           \E r \in AuthResponses(did.issued) : VerifyCheck(t, r, k)
    \/ \E t \in DidThreads : VerifyAccept(t)

SpecDid == InitCommon /\ [][NextDid]_vars

(***************************************************************************)
(* SpecStage: ArticleService.Create followed statement by statement, one   *)
(* call at a time: the draft, the signature, the upload, the repository,   *)
(* the index and the broadcast, each of which may fail where the code lets *)
(* it fail.                                                                *)
(***************************************************************************)
notStage == <<calls, now, lastSync, round, task, handler, best, fails, reply, created,
              gossip, op, upload, repos, life, disc, feed, users, keyring, did, fetch,
              locks, scores, boot>>

\* Create up to Validate: the user is loaded, the key is decrypted, the
\* article is built and validated.
DraftArticle(uid, req, id, clock) ==
    IF uid \notin DOMAIN Users THEN [res |-> "ErrUserNotFound", art |-> {}]
    ELSE LET user == Users[uid]
             a == [id |-> id, cid |-> 0, ver |-> 1,
                   ts |-> clock, mono |-> TRUE, title |-> req.title, body |-> req.body,
                   author |-> user.name, tags |-> req.tags, cat |-> req.cat,
                   pubkey |-> user.pub, origin |-> OriginIP, sig |-> <<>>]
         IN IF ~user.active THEN [res |-> "ErrUserNotActive", art |-> {}]
            ELSE IF ~DecryptOk(user.priv, user.hash) THEN [res |-> "ErrDecrypt", art |-> {}]
            ELSE IF ~Validate(a) THEN [res |-> "ErrValidation", art |-> {}]
            ELSE [res |-> "ok", art |-> {a}]

StageDraft(uid, req) ==
    LET id == stage.calls + 1
        out == DraftArticle(uid, req, id, now)
    IN /\ stage.pc = "idle"
       /\ id <= MaxCreated
       /\ stage' = [stage EXCEPT !.pc = IF out.res = "ok" THEN "drafted" ELSE "idle",
                                 !.calls = id, !.id = id, !.uid = uid, !.art = out.art,
                                 !.trail = IF out.res = "ok" THEN <<"Drafted">> ELSE <<>>,
                                 !.res = IF out.res = "ok" THEN "none" ELSE out.res]
       /\ UNCHANGED <<store, index, indexed, blobs, topic, notStage>>

\* s.signer.SignArticle(article, privateKey)
StageSign ==
    /\ stage.pc = "drafted"
    /\ \E a \in stage.art :
         stage' = [stage EXCEPT !.pc = "signed",
                                !.art = {SignArticle(a, Users[stage.uid].priv.key)},
                                !.trail = Append(@, "Signed")]
    /\ UNCHANGED <<store, index, indexed, blobs, topic, notStage>>

\* The mutant: an upload whose failure is logged and the call goes on.
StageAddGoesOn(ipfsOk) ==
    /\ stage.pc = "signed"
    /\ \E a \in stage.art :
         IF ipfsOk
         THEN /\ blobs' = IpfsAdd(blobs, ToJSON(a))
              /\ stage' = [stage EXCEPT !.pc = "stored",
                                        !.art = {[a EXCEPT !.cid = ContentCid(ToJSON(a))]},
                                        !.trail = Append(@, "Stored")]
         ELSE /\ stage' = [stage EXCEPT !.pc = "stored", !.failed = @ \cup {a.id}]
              /\ UNCHANGED blobs
    /\ UNCHANGED <<store, index, indexed, topic, notStage>>

\* article.ToJSON, s.ipfsClient.Add and article.CID = cid: the error of Add
\* ends the call.
StageAdd(ipfsOk) ==
    /\ stage.pc = "signed"
    /\ \E a \in stage.art :
         IF ipfsOk
         THEN /\ blobs' = IpfsAdd(blobs, ToJSON(a))
              /\ stage' = [stage EXCEPT !.pc = "stored",
                                        !.art = {[a EXCEPT !.cid = ContentCid(ToJSON(a))]},
                                        !.trail = Append(@, "Stored")]
         ELSE /\ stage' = [stage EXCEPT !.pc = "idle", !.res = "ErrIPFSUploadFailed",
                                        !.art = {}, !.failed = @ \cup {a.id}]
              /\ UNCHANGED blobs
    /\ UNCHANGED <<store, index, indexed, topic, notStage>>

\* s.articleRepo.Create: its error ends the call, the blob stays uploaded.
StagePersist(repoOk) ==
    /\ stage.pc = "stored"
    /\ \E a \in stage.art :
         IF repoOk
         THEN /\ store' = [store EXCEPT !["q"] = RepoCreate(@, a)]
              /\ stage' = [stage EXCEPT !.pc = "persisted", !.trail = Append(@, "Persisted")]
         ELSE /\ stage' = [stage EXCEPT !.pc = "idle", !.res = "ErrStore", !.art = {}]
              /\ UNCHANGED store
    /\ UNCHANGED <<index, indexed, blobs, topic, notStage>>

\* s.indexer.IndexArticle: its error is logged and the call goes on.
StageIndex(indexOk) ==
    /\ stage.pc = "persisted"
    /\ \E a \in stage.art :
         IF indexOk
         THEN /\ index' = [index EXCEPT !["q"] = IndexArticle(@, a)]
              /\ indexed' = Put(indexed, a.cid, Count(indexed, a.cid) + 1)
              /\ stage' = [stage EXCEPT !.pc = "indexed", !.trail = Append(@, "Indexed")]
         ELSE /\ stage' = [stage EXCEPT !.pc = "indexed"]
              /\ UNCHANGED <<index, indexed>>
    /\ UNCHANGED <<store, blobs, topic, notStage>>

\* Create, step 8, and the return of the article.
StageBroadcast(bc) ==
    /\ stage.pc = "indexed"
    /\ \E a \in stage.art :
         LET sent == CreateBroadcast(topic, a, bc) IN
         /\ topic' = sent.topic
         /\ stage' = [stage EXCEPT !.pc = "idle", !.res = sent.res,
                                   !.trail = IF sent.bcast = "sent"
                                             THEN Append(@, "Broadcasted") ELSE @]
    /\ UNCHANGED <<store, index, indexed, blobs, notStage>>

NextStage ==
    \/ \E uid \in UserIds, req \in Requests : StageDraft(uid, req)
    \/ StageSign
    \/ \E ipfsOk \in BOOLEAN : StageAdd(ipfsOk)
    \/ \E repoOk \in BOOLEAN : StagePersist(repoOk)
    \/ \E indexOk \in BOOLEAN : StageIndex(indexOk)
    \/ \E bc \in Broadcasters : StageBroadcast(bc)

SpecStage == InitCommon /\ [][NextStage]_vars

(***************************************************************************)
(* SpecFetch: ArticleService.GetByCID on node q.  The node receives        *)
(* articles through HandleIncomingArticle; anybody uploads bytes to the    *)
(* blob network: articles, signed by their author or not, and bytes that   *)
(* are no article.                                                         *)
(***************************************************************************)
notFetch == <<now, lastSync, round, task, handler, best, fails, reply, created, blobs,
              topic, gossip, op, upload, repos, life, disc, feed, users, keyring, did,
              stage, locks, scores, boot>>

\* The cid of the bytes that are no JSON document.
JunkCid == CidOf(MaxId + 1, 1, 1, 1, TRUE)

JunkBytes == [json |-> FALSE, val |-> {}]

\* What the blob network may be given: the cid and the bytes.
NetBlobs ==
    {[cid |-> a.cid, bytes |-> [json |-> TRUE, val |-> {ToJSON(a)}]] : a \in Articles}
        \cup {[cid |-> JunkCid, bytes |-> JunkBytes]}

\* The cids GetByCID is asked for.
AskedCids == {a.cid : a \in Articles} \cup {JunkCid}

\* domain.FromJSON: json.Unmarshal into an Article.
FromJSON(data) ==
    IF data.json THEN [err |-> FALSE, art |-> data.val] ELSE [err |-> TRUE, art |-> {}]

\* The mutant: a GetByCID that returns what it parsed.
GetByCIDUnverified(s, net, cid, catOk) ==
    LET db == BadgerGetByCID(s, cid)
        none == [from |-> "ipfs", parsed |-> {}, art |-> {}, store |-> s]
    IN IF db.err = "nil"
       THEN [from |-> "db", res |-> "ok", parsed |-> {}, art |-> db.art, store |-> s]
       ELSE IF db.err # "ErrArticleNotFound" THEN [none EXCEPT !.from = "db"] @@ [res |-> db.err]
       ELSE IF ~catOk \/ cid \notin DOMAIN net THEN none @@ [res |-> "ErrArticleNotFound"]
       ELSE LET json == FromJSON(net[cid]) IN
            IF json.err THEN none @@ [res |-> "ErrParse"]
            ELSE [none EXCEPT !.parsed = json.art, !.art = json.art] @@ [res |-> "ok"]

\* ArticleService.GetByCID: the repository first, then ipfsClient.Cat,
\* FromJSON and VerifyArticle; nothing is cached.
GetByCID(s, net, cid, catOk) ==
    LET db == BadgerGetByCID(s, cid)
        none == [from |-> "ipfs", parsed |-> {}, art |-> {}, store |-> s]
    IN IF db.err = "nil"
       THEN [from |-> "db", res |-> "ok", parsed |-> {}, art |-> db.art, store |-> s]
       ELSE IF db.err # "ErrArticleNotFound" THEN [none EXCEPT !.from = "db"] @@ [res |-> db.err]
       ELSE IF ~catOk \/ cid \notin DOMAIN net THEN none @@ [res |-> "ErrArticleNotFound"]
       ELSE LET json == FromJSON(net[cid]) IN
            IF json.err THEN none @@ [res |-> "ErrParse"]
            ELSE IF \E a \in json.art : ~VerifyArticle(a)
                 THEN [none EXCEPT !.parsed = json.art] @@ [res |-> "ErrInvalidSignature"]
            ELSE [none EXCEPT !.parsed = json.art, !.art = json.art] @@ [res |-> "ok"]

\* Somebody adds bytes to the blob network.
NetPut(b) ==
    /\ fetch.puts < MaxNetPuts
    /\ fetch' = [fetch EXCEPT !.net = Put(@, b.cid, b.bytes), !.puts = @ + 1]
    /\ UNCHANGED <<store, index, indexed, calls, notFetch>>

\* An article arrives at node q.
FetchIngest(a) ==
    /\ Ingest(a)
    /\ UNCHANGED fetch

Fetch(cid, catOk) ==
    LET out == GetByCID(store["q"], fetch.net, cid, catOk) IN
    /\ store' = [store EXCEPT !["q"] = out.store]
    /\ fetch' = [fetch EXCEPT !.cid = cid, !.from = out.from, !.parsed = out.parsed,
                              !.res = out.res, !.art = out.art,
                              !.wrote = out.store # store["q"]]
    /\ UNCHANGED <<index, indexed, calls, notFetch>>

NextFetch ==
    \/ \E b \in NetBlobs : NetPut(b)
    \/ \E a \in Versions \cup {Tampered(i) : i \in Ids} : FetchIngest(a)
    \/ \E cid \in AskedCids, catOk \in BOOLEAN : Fetch(cid, catOk)

SpecFetch == InitCommon /\ [][NextFetch]_vars

(***************************************************************************)
(* SpecLocks: the mutexes of AutoDiscovery (ad.mu, over the bootstrap      *)
(* table) and of P2PNode (n.mu, over the topic and subscription tables).   *)
(* The discovery loop and the reconnect loop run discoverBootstraps and    *)
(* connectToBootstraps; two callers run JoinTopic, Subscribe and Publish.  *)
(* A task is on the network while it waits for an HTTP response, a dial or *)
(* a publication.  pubsub.Join and Topic.Subscribe hand a request to the   *)
(* event loop of the pubsub instance of the process and wait for its       *)
(* answer: they are calls inside the process.                              *)
(***************************************************************************)
notLocks == <<articles, upload, repos, life, disc, feed, users, keyring, did, stage, fetch,
              scores, boot>>

DiscTasks == {"discovery", "reconnect"}

NodeTasks == {"n1", "n2"}

BootstrapURLs == {"url1", "url2"}

TopicNames == {"articles"}

\* sync.RWMutex
CanLock(mu) == mu.w = "none" /\ mu.r = {}

CanRLock(mu) == mu.w = "none"

Lock(mu, t) == [mu EXCEPT !.w = t]

Unlock(mu, t) == [mu EXCEPT !.w = "none"]

RLock(mu, t) == [mu EXCEPT !.r = @ \cup {t}]

RUnlock(mu, t) == [mu EXCEPT !.r = @ \ {t}]

\* The task is inside http.DefaultClient.Do, host.Connect or topic.Publish.
OnNetwork(t) == locks.task[t].pc \in {"fetching", "dialing", "publishing"}

HoldsLock(t) == t \in {locks.ad.w, locks.n.w} \cup locks.ad.r \cup locks.n.r

\* discoverBootstraps: ad.mu.RLock()
DiscoverBegin(t) ==
    /\ locks.task[t].pc = "idle"
    /\ CanRLock(locks.ad)
    /\ locks' = [locks EXCEPT !.ad = RLock(@, t), !.task[t].pc = "urls"]
    /\ UNCHANGED notLocks

\* discoverBootstraps: the URLs are copied, ad.mu.RUnlock()
DiscoverCopied(t) ==
    /\ locks.task[t].pc = "urls"
    /\ locks' = [locks EXCEPT !.ad = RUnlock(@, t), !.task[t].pc = "fetch",
                              !.task[t].todo = BootstrapURLs]
    /\ UNCHANGED notLocks

\* fetchBootstrapInfo: the request is sent
FetchStart(t, url) ==
    /\ locks.task[t].pc = "fetch"
    /\ url \in locks.task[t].todo
    /\ locks' = [locks EXCEPT !.task[t] = [pc |-> "fetching", cur |-> url,
                                           todo |-> @.todo \ {url}]]
    /\ UNCHANGED notLocks

\* fetchBootstrapInfo returns: the info, or an error and the next URL.
FetchEnd(t, ok) ==
    /\ locks.task[t].pc = "fetching"
    /\ locks' = [locks EXCEPT !.task[t].pc = IF ok THEN "insert" ELSE "fetch"]
    /\ UNCHANGED notLocks

\* discoverBootstraps: ad.mu.Lock() and the entry is written
InsertLock(t) ==
    /\ locks.task[t].pc = "insert"
    /\ CanLock(locks.ad)
    /\ locks' = [locks EXCEPT !.ad = Lock(@, t), !.task[t].pc = "inserted",
                              !.known = @ \cup {locks.task[t].cur}]
    /\ UNCHANGED notLocks

\* discoverBootstraps: ad.mu.Unlock()
InsertUnlock(t) ==
    /\ locks.task[t].pc = "inserted"
    /\ locks' = [locks EXCEPT !.ad = Unlock(@, t), !.task[t].pc = "fetch"]
    /\ UNCHANGED notLocks

\* discoverBootstraps, connectToBootstraps: the loop is over
LoopEnd(t) ==
    /\ locks.task[t].pc \in {"fetch", "dial"}
    /\ locks.task[t].todo = {}
    /\ locks' = [locks EXCEPT !.task[t] = [pc |-> "idle", cur |-> "none", todo |-> {}]]
    /\ UNCHANGED notLocks

\* connectToBootstraps: ad.mu.RLock()
ConnectBegin(t) ==
    /\ locks.task[t].pc = "idle"
    /\ CanRLock(locks.ad)
    /\ locks' = [locks EXCEPT !.ad = RLock(@, t), !.task[t].pc = "snapshot"]
    /\ UNCHANGED notLocks

\* connectToBootstraps: the table is copied, ad.mu.RUnlock()
ConnectCopied(t) ==
    /\ locks.task[t].pc = "snapshot"
    /\ locks' = [locks EXCEPT !.ad = RUnlock(@, t), !.task[t].pc = "dial",
                              !.task[t].todo = locks.known]
    /\ UNCHANGED notLocks

\* connectToBootstraps: ad.host.Connect is called on an address of the entry
DialStart(t, b) ==
    /\ locks.task[t].pc = "dial"
    /\ b \in locks.task[t].todo
    /\ locks' = [locks EXCEPT !.task[t] = [pc |-> "dialing", cur |-> b,
                                           todo |-> @.todo \ {b}]]
    /\ UNCHANGED notLocks

\* ad.host.Connect returns
DialEnd(t) ==
    /\ locks.task[t].pc = "dialing"
    /\ locks' = [locks EXCEPT !.task[t].pc = "dial"]
    /\ UNCHANGED notLocks

\* JoinTopic, Subscribe: n.mu.Lock()
TableLock(t, call, name) ==
    /\ locks.task[t].pc = "idle"
    /\ CanLock(locks.n)
    /\ locks' = [locks EXCEPT !.n = Lock(@, t), !.task[t].pc = call, !.task[t].cur = name]
    /\ UNCHANGED notLocks

\* JoinTopic under the lock: the topic of the table, or pubsub.Join and the
\* table is written; the deferred Unlock.
JoinTopic(t, ok) ==
    /\ locks.task[t].pc = "join"
    /\ locks' = [locks EXCEPT !.n = Unlock(@, t),
                              !.topics = IF ok THEN @ \cup {locks.task[t].cur} ELSE @,
                              !.task[t] = [pc |-> "idle", cur |-> "none", todo |-> {}]]
    /\ UNCHANGED notLocks

\* Subscribe under the lock: the subscription of the table, or an error when
\* the topic is not joined, or topic.Subscribe and the table is written; the
\* deferred Unlock.
Subscribe(t, ok) ==
    /\ locks.task[t].pc = "subscribe"
    /\ locks' = [locks EXCEPT !.n = Unlock(@, t),
                              !.subs = IF ok /\ locks.task[t].cur \in locks.topics
                                       THEN @ \cup {locks.task[t].cur} ELSE @,
                              !.task[t] = [pc |-> "idle", cur |-> "none", todo |-> {}]]
    /\ UNCHANGED notLocks

\* Publish: n.mu.RLock()
PublishBegin(t, name) ==
    /\ locks.task[t].pc = "idle"
    /\ CanRLock(locks.n)
    /\ locks' = [locks EXCEPT !.n = RLock(@, t), !.task[t].pc = "lookup",
                              !.task[t].cur = name]
    /\ UNCHANGED notLocks

\* The mutant: a Publish that defers the RUnlock to its return.
PublishLookupDeferred(t) ==
    /\ locks.task[t].pc = "lookup"
    /\ locks' = [locks EXCEPT !.task[t].pc = IF locks.task[t].cur \in locks.topics
                                             THEN "publishing" ELSE "return"]
    /\ UNCHANGED notLocks

\* Publish: the topic is read, n.mu.RUnlock(); an error when it is not
\* joined, or topic.Publish is called.
PublishLookup(t) ==
    /\ locks.task[t].pc = "lookup"
    /\ locks' = [locks EXCEPT !.n = RUnlock(@, t),
                              !.task[t].pc = IF locks.task[t].cur \in locks.topics
                                             THEN "publishing" ELSE "return"]
    /\ UNCHANGED notLocks

\* topic.Publish returns, and Publish does.
PublishEnd(t) ==
    /\ locks.task[t].pc \in {"publishing", "return"}
    /\ locks' = [locks EXCEPT !.n = RUnlock(@, t),
                              !.task[t] = [pc |-> "idle", cur |-> "none", todo |-> {}]]
    /\ UNCHANGED notLocks

NextLocks ==
    \/ \E t \in DiscTasks : DiscoverBegin(t)
    \/ \E t \in DiscTasks : DiscoverCopied(t)
    \/ \E t \in DiscTasks, url \in BootstrapURLs : FetchStart(t, url)
    \/ \E t \in DiscTasks, ok \in BOOLEAN : FetchEnd(t, ok)
    \/ \E t \in DiscTasks : InsertLock(t)
    \/ \E t \in DiscTasks : InsertUnlock(t)
    \/ \E t \in DiscTasks : LoopEnd(t)
    \/ \E t \in DiscTasks : ConnectBegin(t)
    \/ \E t \in DiscTasks : ConnectCopied(t)
    \/ \E t \in DiscTasks, b \in BootstrapURLs : DialStart(t, b)
    \/ \E t \in DiscTasks : DialEnd(t)
    \/ \E t \in NodeTasks, call \in {"join", "subscribe"}, name \in TopicNames :
          TableLock(t, call, name)
    \/ \E t \in NodeTasks, ok \in BOOLEAN : JoinTopic(t, ok)
    \/ \E t \in NodeTasks, ok \in BOOLEAN : Subscribe(t, ok)
    \/ \E t \in NodeTasks, name \in TopicNames : PublishBegin(t, name)
    \/ \E t \in NodeTasks : PublishLookup(t)
    \/ \E t \in NodeTasks : PublishEnd(t)

SpecLocks == InitCommon /\ [][NextLocks]_vars

(***************************************************************************)
(* SpecBoot: discoverBootstraps and connectToBootstraps over the answers   *)
(* of the bootstrap URLs, one turn of their loops at a time.  An answer    *)
(* decodes into a BootstrapInfo whose peer id and addresses are whatever    *)
(* the server sent.  No function of the repository recovers from a panic:   *)
(* a panic of the discovery goroutine ends the process.                    *)
(***************************************************************************)
notBoot == <<articles, upload, repos, life, disc, feed, users, keyring, did, stage, fetch,
             locks, scores>>

\* info.PeerID[:16] and pid.String()[:16]
PeerIdShown == 16

\* addrStr[:50]
AddrShown == 50

\* A peer id of 52 characters, as libp2p prints an Ed25519 key.
LongPeerId(c) == "12D3KooW" \o Rep(c, 44)

\* The three-character peer id of a one-byte identity multihash.
ShortPeerId == "176"

\* peer.Decode
PeerDecodeOk(id) == id \in {LongPeerId("A"), LongPeerId("B"), LongPeerId("C"), ShortPeerId}

\* A multiaddress with a /p2p/ part.
P2pAddr(id) == "/ip4/10.0.0.1/tcp/4001/p2p/" \o id

\* multiaddr.NewMultiaddr and peer.AddrInfoFromP2pAddr
AddrParses(addr) == \E id \in {LongPeerId("A"), ShortPeerId} : addr = P2pAddr(id)

\* The answers of the bootstrap URLs: a well-formed one, and one for each
\* way of being malformed: an empty, a short and an undecodable peer id, a
\* short address that parses and a short address that does not.
BootstrapInfos ==
    {[peerID |-> LongPeerId("A"), addrs |-> <<P2pAddr(LongPeerId("A"))>>],
     [peerID |-> "", addrs |-> <<P2pAddr(LongPeerId("A"))>>],
     [peerID |-> "12D3Koo", addrs |-> <<P2pAddr(LongPeerId("A"))>>],
     [peerID |-> Rep("!", 20), addrs |-> <<P2pAddr(LongPeerId("A"))>>],
     [peerID |-> LongPeerId("B"), addrs |-> <<P2pAddr(ShortPeerId)>>],
     [peerID |-> LongPeerId("C"), addrs |-> <<"bogus", P2pAddr(LongPeerId("A"))>>]}

\* s[:n]: the first n bytes, or a panic (slice bounds out of range).
SlicePanics(str, n) == Len(str) < n

\* One turn of the loop of discoverBootstraps: the URL is fetched; an error
\* is logged, an answer is entered into the table and its peer id logged.
DiscoverTurn(fetched, info) ==
    /\ ~boot.crashed
    /\ boot.steps < MaxBootSteps
    /\ boot' = IF ~fetched
               THEN [boot EXCEPT !.steps = @ + 1, !.last = "fetch failed"]
               ELSE [boot EXCEPT !.steps = @ + 1, !.last = "discovered",
                                 !.known = Put(@, info.peerID, info),
                                 !.crashed = SlicePanics(info.peerID, PeerIdShown)]
    /\ UNCHANGED notBoot

\* connectToBootstraps, the addresses of one entry from the k-th on: an
\* address that does not parse is skipped, a failed dial is logged with the
\* address, a dial that succeeded is logged with the peer id and ends the
\* walk over the addresses.
RECURSIVE TryAddresses(_, _, _)
TryAddresses(info, k, dialOk) ==
    IF k > Len(info.addrs) THEN [connected |-> FALSE, panic |-> FALSE]
    ELSE IF ~AddrParses(info.addrs[k]) THEN TryAddresses(info, k + 1, dialOk)
    ELSE IF ~dialOk
         THEN IF SlicePanics(info.addrs[k], AddrShown)
              THEN [connected |-> FALSE, panic |-> TRUE]
              ELSE TryAddresses(info, k + 1, dialOk)
    ELSE [connected |-> TRUE, panic |-> SlicePanics(info.peerID, PeerIdShown)]

\* One turn of the outer loop of connectToBootstraps, for the entry id of
\* the table.
ConnectTurn(id, dialOk) ==
    /\ ~boot.crashed
    /\ boot.steps < MaxBootSteps
    /\ id \in DOMAIN boot.known
    /\ LET out == TryAddresses(boot.known[id], 1, dialOk) IN
       boot' = IF ~PeerDecodeOk(id)
               THEN [boot EXCEPT !.steps = @ + 1, !.last = "invalid peer id"]
               ELSE IF id \in boot.conn
               THEN [boot EXCEPT !.steps = @ + 1, !.last = "connected already"]
               ELSE [boot EXCEPT !.steps = @ + 1,
                                 !.last = IF out.connected THEN "connected" ELSE "unreachable",
                                 !.conn = IF out.connected THEN @ \cup {id} ELSE @,
                                 !.crashed = out.panic]
    /\ UNCHANGED notBoot

\* The connection to a bootstrap server is lost.
BootDisconnect(id) ==
    /\ ~boot.crashed
    /\ id \in boot.conn
    /\ boot' = [boot EXCEPT !.conn = @ \ {id}, !.last = "disconnected"]
    /\ UNCHANGED notBoot

NextBoot ==
    \/ \E fetched \in BOOLEAN, info \in BootstrapInfos : DiscoverTurn(fetched, info)
    \/ \E info \in BootstrapInfos, dialOk \in BOOLEAN : ConnectTurn(info.peerID, dialOk)
    \/ \E info \in BootstrapInfos : BootDisconnect(info.peerID)

SpecBoot == InitCommon /\ [][NextBoot]_vars

(***************************************************************************)
(* SpecScores: the reputation system.  Events are recorded for two DIDs,   *)
(* time passes in weeks, and DecayScores is called with a positive rate.   *)
(* A score is counted in half points, the smallest step an event makes;    *)
(* the clock is counted in days.                                           *)
(***************************************************************************)
notScores == <<articles, upload, repos, life, disc, feed, users, keyring, did, stage, fetch,
               locks, boot>>

ScoreUnit == 2

WeekDays == 7

DecayAfterDays == 7

InitialScore == 50 * ScoreUnit

MaxScore == 100 * ScoreUnit

\* ArticlePostScore, UpVoteScore, DownVoteScore, ReportPenalty,
\* VerifiedBonus and SpamPenalty
EventScores ==
    [article_post |-> 2 * ScoreUnit, up_vote |-> 1, down_vote |-> -1,
     report |-> -5 * ScoreUnit, verified |-> 10 * ScoreUnit, spam |-> -10 * ScoreUnit]

ScoreDids == {"did:a", "did:b"}

\* The decay rates DecayScores is called with: half a point and two points
\* a week.
DecayRates == {1, 2 * ScoreUnit}

\* RecordEvent: the score of the DID, InitialScore when it has none, moved
\* by the event and clamped to 0..100.
RecordEvent(d, eventType) ==
    LET old == IF d \in DOMAIN scores.score THEN scores.score[d] ELSE InitialScore
        new == old + EventScores[eventType]
        clamped == IF new < 0 THEN 0 ELSE IF new > MaxScore THEN MaxScore ELSE new
    IN /\ scores.events < MaxScoreEvents
       /\ scores' = [scores EXCEPT !.score = Put(@, d, clamped),
                                   !.updated = Put(@, d, scores.clock),
                                   !.events = @ + 1, !.last = "event"]
       /\ UNCHANGED notScores

\* A week passes.
ScoreWeek ==
    /\ scores.clock < MaxScoreWeeks * WeekDays
    /\ scores' = [scores EXCEPT !.clock = @ + WeekDays, !.last = "week"]
    /\ UNCHANGED notScores

\* DecayScores, one score: after more than seven days without an update it
\* loses decayRate a week and is raised to half of InitialScore when it is
\* below it.
Decayed(score, days, decayRate) ==
    IF days > DecayAfterDays
    THEN IF score - (days \div WeekDays) * decayRate < InitialScore \div 2
         THEN InitialScore \div 2
         ELSE score - (days \div WeekDays) * decayRate
    ELSE score

\* ReputationSystem.DecayScores
DecayScores(decayRate) ==
    /\ scores.score # <<>>
    /\ scores' = [scores EXCEPT
           !.score = [d \in DOMAIN @ |->
                         Decayed(@[d], scores.clock - scores.updated[d], decayRate)],
           !.updated = [d \in DOMAIN @ |->
                           IF scores.clock - @[d] > DecayAfterDays THEN scores.clock ELSE @[d]],
           !.last = "decay",
           !.before = scores.score]
    /\ UNCHANGED notScores

NextScores ==
    \/ \E d \in ScoreDids, eventType \in DOMAIN EventScores : RecordEvent(d, eventType)
    \/ ScoreWeek
    \/ \E decayRate \in DecayRates : DecayScores(decayRate)

SpecScores == InitCommon /\ [][NextScores]_vars






\* The sync loop keeps ticking and every goroutine that can take a step
\* takes it; nothing obliges the clock, the peers or the gossip topic.
FairSync ==
    /\ SpecSync
    /\ WF_vars(Quiet /\ SyncStep)
    /\ WF_vars(HandlerStep)

(***************************************************************************)
(* The properties.                                                         *)
(***************************************************************************)
\* C1: when HandleIncomingArticle is called with the article of the call just
\* before it on the same node, the second call leaves the repository and the
\* search index exactly as the first call left them, and it returns success.
C1_Idempotent ==
    (calls.n >= 2 /\ calls.art = calls.prev) => (~calls.changed /\ calls.res = "ok")

\* C1 witness: a validly signed article was handled twice in succession, and
\* the first of the two calls had stored it.
C1_Witness ==
    /\ calls.n >= 2
    /\ calls.art = calls.prev
    /\ \E a \in calls.art : VerifyArticle(a) /\ RepoHas(store["q"], a.id)
                               /\ RepoGetByID(store["q"], a.id) = a

\* The articles of one id that a listing of the repository returns.
ListedWithId(s, i) == {k \in DOMAIN RepoListAll(s) : RepoListAll(s)[k].id = i}

\* C2: after any sequence of HandleIncomingArticle calls the repository lists
\* at most one article for each id, and after a call with a validly signed
\* article the article kept under its id is the winner by (version,
\* timestamp, cid) between the incoming article and the one stored before.
C2_OneWinnerPerId ==
    /\ \A i \in Ids : Cardinality(ListedWithId(store["q"], i)) <= 1
    /\ \A a \in calls.art : VerifyArticle(a) =>
          /\ RepoHas(store["q"], a.id)
          /\ \A b \in calls.before \cup {a} : ~Beats(b, RepoGetByID(store["q"], a.id))

\* What is stored under a forged article's name anywhere on node n.
HoldsForged(n) ==
    \/ \E i \in DOMAIN store[n].byId :
          LET a == store[n].byId[i] IN a.sig # Sign(GetSignableContent(a), a.pubkey)
    \/ \E f \in ForgedArticles :
          \/ f.cid \in DOMAIN store[n].byCid
          \/ \E i \in DOMAIN index[n] : index[n][i].cid = f.cid

\* C3: no node ever holds, in its repository, its secondary keys or its search
\* index, an article whose signature does not verify against its author key
\* over its signable content, whether it came by gossip or in a sync response.
C3_NoForgedStored == \A n \in Nodes : ~HoldsForged(n)

\* C3 witness: the gossip handler and a sync goroutine of q have each been
\* handed a forged article and are returning from the handler.
C3_Witness ==
    /\ handler["g"].pc = "return" /\ handler["g"].art \subseteq ForgedArticles
    /\ handler["p"].pc = "return" /\ handler["p"].art \subseteq ForgedArticles
    /\ task["p"].resp # <<>>

\* C4: whenever Create returns success, the article it returns verifies
\* against its author_pubkey over its signable content.
C4_CreatedVerifies ==
    created.res = "ok" =>
        /\ created.art # {}
        /\ \A a \in created.art : VerifyArticle(a)

\* C4 witness: Create has succeeded and the article it returned is stored.
C4_Witness ==
    /\ created.res = "ok"
    /\ \E a \in created.art : RepoHas(store["q"], a.id) /\ a.pubkey = AuthorKey

\* C5: an article that peer p holds is eventually held by q, whenever p
\* obtained it and wherever q's cursor stood, in the runs in which no
\* exchange ever fails.
C5_EventuallyDelivered ==
    \A i \in Ids :
        (RepoHas(store["p"], i) /\ fails = 0) ~> (RepoHas(store["q"], i) \/ fails > 0)

\* C6: when q's exchange with p fails in a round, an article that the
\* exchange would have brought and that q lacks is still obtained by q later.
C6_FailedNotSkipped ==
    \A i \in Ids :
        (/\ task["p"].st = "failed"
         /\ \E k \in DOMAIN task["p"].resp : task["p"].resp[k].id = i
         /\ ~RepoHas(store["q"], i))
            ~> RepoHas(store["q"], i)

\* C7: once q has finished receiving the versions of an id, in whatever
\* order and by gossip or by sync, and no round and no handler is running, q
\* holds the latest of the versions it received.
C7_LatestWins ==
    (Quiet /\ round = "idle") =>
        \A i \in DOMAIN best : \A b \in best[i] :
            RepoHas(store["q"], i) /\ RepoGetByID(store["q"], i) = b

\* C8: when the same article reaches q by gossip and by sync, or in the
\* responses of two peers, q lists one article under its id and the indexer
\* is called with the article at most once.
C8_IndexedOnce ==
    /\ \A c \in DOMAIN indexed : indexed[c] <= 1
    /\ \A i \in Ids : Cardinality(ListedWithId(store["q"], i)) <= 1

\* C9: a sync response never carries more than MaxArticlesPerSync articles,
\* whatever limit the request names, and never more than the limit when the
\* limit is between 1 and MaxArticlesPerSync.
C9_ResponseBounded ==
    /\ reply.n <= MaxArticlesPerSync
    /\ (1 <= reply.limit /\ reply.limit <= MaxArticlesPerSync) => reply.n <= reply.limit

\* C9 witness: a request asked for more than MaxArticlesPerSync articles of a
\* node that has more, and was answered with MaxArticlesPerSync.
C9_Witness ==
    /\ reply.limit > MaxArticlesPerSync
    /\ reply.n = MaxArticlesPerSync
    /\ reply.hasMore

\* C10: after a round, q's cursor has not passed any article of p that q
\* has not obtained: what a response with has_more left out can still be
\* asked for.
C10_CursorBehind ==
    (round = "idle" /\ lastSync # 0) =>
        \A i \in DOMAIN store["p"].byId :
            RepoHas(store["q"], i) \/ RepoGetByID(store["p"], i).ts >= lastSync

HandlerGot(h) == {gossip.got[h][k] : k \in DOMAIN gossip.got[h]}

C13_OwnNeverDelivered ==
    \A h \in Handlers : \A m \in HandlerGot(h) : m.from # Self

\* C13 witness: q published a message, the loop took it from the
\* subscription, p then forwarded it back with q's signature, and the
\* handlers, which have been called with a message of p, were not called
\* with it.
C13_Witness ==
    /\ gossip.seqno >= 1
    /\ gossip.pos = Len(gossip.accepted)
    /\ \E k \in DOMAIN gossip.accepted : gossip.accepted[k].from = Self
    /\ \A h \in Handlers : HandlerGot(h) # {}
    /\ \E d \in gossip.last : /\ d.msg.from = Self /\ d.msg.rf = "p"
                              /\ d.msg.sig = "valid"
                              /\ d.verdict = "rejected"

\* C14: whatever errors the handlers return, the loop stays active and
\* every handler has been called, in order, with every message the loop
\* took so far that is not q's own and parses; the errors stay in the log.
C14_HandlerErrorsContained ==
    /\ gossip.active
    /\ \A h \in Handlers :
          gossip.got[h] = SelectSeq(SubSeq(gossip.accepted, 1, gossip.pos), Deliverable)
    /\ Len(gossip.errlog) = Len(gossip.got[1])

\* C14 witness: the first handler returned an error for the first message,
\* and both handlers have been called with it and with a later message.
C14_Witness ==
    /\ Len(gossip.errlog) >= 2
    /\ 1 \in gossip.errlog[1]
    /\ \A h \in Handlers : Len(gossip.got[h]) >= 2

\* What a peer that pull-syncs from node n is answered when it asks for the
\* articles since the given time.
ServedSince(n, since) ==
    LET resp == SyncResponse(store[n], [since |-> since, limit |-> MaxArticlesPerSync])
    IN {resp.articles[k].id : k \in DOMAIN resp.articles}

ViolatesI4I5(r) ==
    \/ r.body = 0
    \/ Len(r.title) > 200
    \/ Len(r.tags) > 10
    \/ \E i \in DOMAIN r.tags : r.tags[i] = "" \/ Len(r.tags[i]) > 50
    \/ r.cat \notin AllowedCategories

\* The users that pass step 1 of Create: active, with a key that decrypts.
CanSign(uid) ==
    /\ uid \in DOMAIN Users
    /\ Users[uid].active
    /\ DecryptOk(Users[uid].priv, Users[uid].hash)

\* C16: a Create by a user who can sign, with a request that breaks I4 or
\* I5, fails with the validation error before the signer is called, and
\* leaves the blob store, the repository, the index and the topic as they
\* were.
C16_InvalidRejected ==
    [][(/\ op' # op
        /\ op'.name = "Create"
        /\ CanSign(op'.uid)
        /\ \E r \in op'.req : ViolatesI4I5(r))
          => (/\ op'.res = "ErrValidation"
              /\ ~op'.signed
              /\ blobs' = blobs
              /\ store' = store
              /\ index' = index
              /\ topic' = topic)]_vars

\* C16 witness: on a node that holds an article and has published it, a
\* Create with eleven tags has been refused.
C16_Witness ==
    /\ op.name = "Create" /\ op.res = "ErrValidation" /\ CanSign(op.uid)
    /\ \E r \in op.req : Len(r.tags) > MaxTags
    /\ RepoHas(store["q"], 1) /\ topic # <<>> /\ blobs.pins # {}

\* C17: an Update or a Delete asked by a user whose name is not the author
\* of the stored article fails with Forbidden and leaves the repository,
\* the index and the pins of the blob store as they were.
C17_ForbiddenUntouched ==
    [][(/\ op' # op
        /\ op'.name \in {"Update", "Delete"}
        /\ op'.uid \in DOMAIN Users
        /\ \E b \in op'.before : b.author # Users[op'.uid].name)
          => (/\ op'.res = "ErrForbidden"
              /\ store' = store
              /\ index' = index
              /\ blobs' = blobs)]_vars

\* C17 witness: a Delete of a stored, pinned article by a user who is not
\* its author has been refused.
C17_Witness ==
    /\ op.name = "Delete" /\ op.res = "ErrForbidden"
    /\ op.uid \in DOMAIN Users
    /\ \E b \in op.before : b.author # Users[op.uid].name /\ b.cid \in blobs.pins
                              /\ RepoHas(store["q"], b.id)

\* C18: a successful Update leaves under the id a version one greater than
\* the version stored before the call, and no call of the service lowers
\* the version stored under an id.
C18_VersionIncrements ==
    [][/\ (op' # op /\ op'.name = "Update" /\ op'.res = "ok") =>
             /\ RepoHas(store'["q"], op'.id)
             /\ \A b \in op'.before : RepoGetByID(store'["q"], op'.id).ver = b.ver + 1
       /\ \A i \in CreatedIds :
             (RepoHas(store["q"], i) /\ RepoHas(store'["q"], i)) =>
                 RepoGetByID(store'["q"], i).ver >= RepoGetByID(store["q"], i).ver]_vars

\* C19: every article in the repository of the authoring node verifies,
\* after any sequence of Create, Update and Delete calls.
C19_StoredVerifies ==
    \A i \in DOMAIN store["q"].byId : VerifyArticle(RepoGetByID(store["q"], i))

\* C20: for the article a successful Create returns, adding the article's
\* serialization to the blob store again yields the article's cid.
C20_ReplayedCid ==
    created.res = "ok" => \A a \in created.art : ContentCid(ToJSON(a)) = a.cid

\* The failed attempts of the Add call in progress.
FailedAttempts == Cardinality({k \in DOMAIN upload.tried : upload.tried[k] = "err"})

\* C21: Add makes at most three attempts, stops at the first that succeeds
\* and returns its cid, has slept 1s, 2s and 3s after the first, second and
\* third failed attempt, and fails with UploadFailed only after three
\* failed attempts.
C21_RetryBackoff ==
    /\ Len(upload.tried) <= 3
    /\ \A k \in DOMAIN upload.tried : upload.tried[k] = "ok" => k = Len(upload.tried)
    /\ upload.res = "ok" => (upload.tried # <<>> /\ upload.tried[Len(upload.tried)] = "ok"
                               /\ upload.cid # 0)
    /\ upload.res = "ErrIPFSUploadFailed" => (FailedAttempts = 3 /\ upload.cid = 0)
    /\ upload.pc \in {"try", "pin", "done"} =>
          upload.slept = [k \in 1..FailedAttempts |-> k]

\* C22: after any sequence of the same calls on both, the Badger and the
\* SQLite repository returned the same error kind for the last call, and
\* GetByID and GetByCID answer alike on both, for every id and cid.
C22_BackendsAgree ==
    /\ repos.res.badger = repos.res.sqlite
    /\ \A id \in AskedIds : BadgerGetByID(repos.badger, id) = SqlGetByID(repos.sqlite, id)
    /\ \A a \in GoodArticles :
          BadgerGetByCID(repos.badger, a.cid) = SqlGetByCID(repos.sqlite, a.cid)

\* Shutdown has been requested: the root context is cancelled and Stop of
\* each component has been called.
ShutdownRequested ==
    /\ life.root
    /\ life.stopSync # "no" /\ life.stopB # "no" /\ life.stopF # "no"

\* Every long-lived task has ended and every Stop has returned.
AllTerminated ==
    /\ life.loop = "exit"
    /\ RoundOver(life.task) /\ RoundOver(life.trig)
    /\ \A t \in Subscribers : life.subs[t] = "exit"
    /\ life.feedloop = "exit"
    /\ life.stopSync = "ret" /\ life.stopB = "ret" /\ life.stopF = "ret"

\* C23: once shutdown is requested, the pull-sync loop and every round, the
\* four subscriber loops and the feed sync loop end, and every Stop returns.
C23_ShutdownTerminates == ShutdownRequested ~> AllTerminated

\* C25: when the cache file has just been loaded, no entry of the file seen
\* more than 24 hours ago is known, and every entry seen less than 24
\* hours ago is known, as the file has it.
C25_StaleCacheDiscarded ==
    disc.last = "load" =>
        \A b \in DOMAIN disc.file :
            /\ disc.clock - disc.file[b].lastSeen > DaySeconds => b \notin DOMAIN disc.known
            /\ disc.clock - disc.file[b].lastSeen < DaySeconds =>
                   (b \in DOMAIN disc.known /\ disc.known[b] = disc.file[b])

\* C25 witness: a file with an entry seen more than a day ago and an entry
\* seen a second less than a day ago has just been loaded.
C25_Witness ==
    /\ disc.last = "load"
    /\ \E b \in DOMAIN disc.file : disc.clock - disc.file[b].lastSeen > DaySeconds
    /\ \E b \in DOMAIN disc.file : disc.clock - disc.file[b].lastSeen = DaySeconds - 1

StepsBegin(done, steps) ==
    Len(done) <= Len(steps) /\ done = SubSeq(steps, 1, Len(done))

\* C26: a feed sync uploads the manifest, publishes its CID to the feed's
\* pointer, unpins the prior manifest and records the new pointer and CID,
\* in this order; when the upload or the publication failed, the prior
\* manifest is still pinned if it was, and the feed's recorded CID, pointer
\* and last-sync time are what they were.
C26_FeedSyncOrder ==
    /\ \/ StepsBegin(feed.trail, <<"upload", "publish", "unpin", "record">>)
       \/ StepsBegin(feed.trail, <<"upload", "publish", "record">>)
    /\ feed.res \in {"upload failed", "publish failed"} =>
           /\ feed.rec = feed.before.rec
           /\ feed.before.rec.lastCID \in feed.before.pinned
                  => feed.before.rec.lastCID \in feed.pinned
           /\ "unpin" \notin {feed.trail[i] : i \in DOMAIN feed.trail}

\* A sync of a feed that has a pinned prior manifest has failed at the
\* publication, and another has run through all four steps.
C26_Witness ==
    /\ feed.res = "publish failed"
    /\ feed.before.rec.lastCID # <<>>
    /\ feed.before.rec.lastCID \in feed.before.pinned
    /\ feed.before.rec.lastCID # feed.cid

Descending(listed) ==
    \A i \in 1..Len(listed), j \in 1..Len(listed) : i < j => listed[i].ts >= listed[j].ts

\* C27: the manifest of a feed sync lists at most 100 CIDs, those of the
\* most recent articles the store held when it was listed, each once, in
\* descending timestamp order, and total_count is the length of the list.
C27_ManifestLists ==
    feed.manifest # <<>> =>
        /\ Len(feed.manifest.articles) <= ManifestLimit
        /\ feed.manifest.total_count = Len(feed.manifest.articles)
        /\ Len(feed.manifest.articles) = Min(ManifestLimit, Cardinality(feed.held))
        /\ {feed.manifest.articles[i] : i \in DOMAIN feed.manifest.articles}
               \subseteq {a.cid : a \in feed.held}
        /\ \A i, j \in DOMAIN feed.manifest.articles :
               i # j => feed.manifest.articles[i] # feed.manifest.articles[j]
        /\ Descending(feed.listed)

\* The registered users are the ones their first registration stored, under
\* the same index keys.
FirstKept ==
    \A name \in DOMAIN users.first :
        LET u == users.first[name] IN
        /\ name \in DOMAIN users.db.byUsername
        /\ users.db.byUsername[name] = u.id
        /\ users.db.byId[u.id] = u
        /\ u.email # "" => /\ ToLower(u.email) \in DOMAIN users.db.byEmail
                           /\ users.db.byEmail[ToLower(u.email)] = u.id

C29_DecryptRoundTrip ==
    keyring.tried # "none" =>
        IF keyring.tried = keyring.password
        THEN keyring.out = [key |-> keyring.plain, err |-> "nil"]
        ELSE keyring.out = [key |-> NoKey, err |-> "failed to decrypt"]

\* A key was opened under its password and then refused under another.
C29_Witness ==
    /\ keyring.tried \notin {"none", keyring.password}
    /\ keyring.password \in keyring.opened
    /\ keyring.out.err = "failed to decrypt"

\* C30: a challenge is accepted at most once, and an accepted response was
\* presented within 5 minutes of the issue, names the DID the challenge was
\* issued to, and carries a signature that verifies over the challenge.
C30_ChallengeOnce ==
    /\ \A c \in DOMAIN did.accepts : did.accepts[c] <= 1
    /\ \A a \in did.accepted :
           LET c == a.response.challenge IN
           /\ c \in DOMAIN did.issued
           /\ a.at - did.issued[c].ts <= ChallengeExpiry
           /\ a.response.did = did.issued[c].did
           /\ VerifyChallengeSig(a.key,
                  ChallengeMessage(c, did.issued[c].did, did.issued[c].ts),
                  a.response.signature)

\* A step in which a round of syncWithPeers that had peers comes back from
\* its wg.Wait and sets lastSync.
CursorWritten ==
    \/ /\ life.loop = "round" /\ life'.loop = "select"
       /\ \E p \in Peers : life.task[p] = "done"
    \/ /\ ~life.trigEnded /\ life'.trigEnded
       /\ \E p \in Peers : life.trig[p] = "done"

\* C31: the sync cursor is written only when no per-peer task of any round
\* in flight, the ticker's or the one TriggerSync started, is still running.
C31_CursorAfterAllRounds ==
    [][CursorWritten => (RoundOver(life.task) /\ RoundOver(life.trig))]_vars

\* The stages of Create, in the order the lifecycle gives them.
Stages == <<"Drafted", "Signed", "Stored", "Persisted", "Indexed", "Broadcasted">>

StageRank(x) == CHOOSE k \in DOMAIN Stages : Stages[k] = x

\* The ids of the articles published on the articles topic.
Broadcasted == {topic[i].id : i \in DOMAIN topic}

SignedByAuthor(a) == a.sig = Sign(GetSignableContent(a), a.pubkey)

\* C33: GetByCID never returns an article it fetched from the blob store
\* whose signature fails verification: the call fails with
\* ErrInvalidSignature and writes nothing to the local store.
C33_FetchedIsVerified ==
    fetch.from = "ipfs" =>
        /\ \A a \in fetch.art : SignedByAuthor(a)
        /\ (\E a \in fetch.parsed : ~SignedByAuthor(a)) =>
              /\ fetch.res = "ErrInvalidSignature"
              /\ fetch.art = {}
              /\ ~fetch.wrote
              /\ BadgerGetByCID(store["q"], fetch.cid).err = "ErrArticleNotFound"

C33_Witness ==
    /\ fetch.from = "ipfs"
    /\ fetch.res = "ErrInvalidSignature"
    /\ \E a \in fetch.parsed : a \in ForgedArticles
    /\ store["q"] # EmptyStore

\* The entries of the Badger indexes that name the article a: the cid key,
\* the time keys and the author keys that hold its id.
CidEntries(s, a) == {c \in DOMAIN s.byCid : s.byCid[c] = a.id}

TimeEntries(s, a) == {i \in DOMAIN s.byTime : s.byTime[i][2] = a.id}

AuthorEntries(s, a) == {k \in s.byAuthor : k[3] = a.id}

\* C34: in the key-value backend, after any sequence of Create, Update and
\* Delete, every entry of the cid, time and author index names a stored
\* article whose cid, timestamp and author are the entry's, and every
\* stored article has exactly one entry in each index.
C34_IndexesConsistent ==
    LET s == repos.badger IN
    /\ \A c \in DOMAIN s.byCid :
          s.byCid[c] \in DOMAIN s.byId /\ s.byId[s.byCid[c]].cid = c
    /\ \A i \in DOMAIN s.byTime :
          s.byTime[i][2] \in DOMAIN s.byId /\ s.byId[s.byTime[i][2]].ts = s.byTime[i][1]
    /\ \A k \in s.byAuthor :
          /\ k[3] \in DOMAIN s.byId
          /\ s.byId[k[3]].author = k[1]
          /\ s.byId[k[3]].ts = k[2]
    /\ \A id \in DOMAIN s.byId :
          /\ Cardinality(CidEntries(s, s.byId[id])) = 1
          /\ Cardinality(TimeEntries(s, s.byId[id])) = 1
          /\ Cardinality(AuthorEntries(s, s.byId[id])) = 1

LockTasks == DiscTasks \cup NodeTasks

\* C35: no task holds a lock while it is on the network: discovery holds
\* ad.mu neither during an HTTP fetch nor during a dial, and the node holds
\* n.mu during no publication.
C35_NoLockOnNetwork ==
    \A t \in LockTasks : OnNetwork(t) => ~HoldsLock(t)

C35_Witness ==
    /\ locks.task["n1"].pc = "publishing"
    /\ locks.n.w = "n2"
    /\ locks.task["discovery"].pc = "fetching"
    /\ locks.task["reconnect"].pc = "dialing"
    /\ locks.subs # {}

\* The tasks that are between their first and their last access to
\* da.challenges: the cleanup goroutine while it ranges over the map, a
\* VerifyAuthResponse call between its lookup and its delete.
InChallengeTable ==
    {t \in DidThreads : did.verify[t].pc = "accept"}
        \cup (IF did.cleaning THEN {"cleanup"} ELSE {})

\* C36: GenerateChallenge, VerifyAuthResponse and the cleanup goroutine
\* never access the challenge table at the same time: at most one of them
\* is inside it.
C36_TableExclusive == Cardinality(InChallengeTable) <= 1

\* C37: when Add succeeds on its second or third attempt, the cid it
\* returns is that of the complete byte sequence it was given.
C37_RetryUploadsAll ==
    (upload.cid # 0 /\ Len(upload.tried) >= 2) => upload.cid = CidOfBytes(upload.data)

\* C38: a bootstrap answer with an empty, short or undecodable peer id, or
\* with an address of fewer than 50 characters that cannot be dialled,
\* never ends the discovery or the reconnect task.
C38_MalformedAnswerSurvived == ~boot.crashed

\* C39: a decay pass never increases a score: for every user the score
\* after DecayScores is at most the score before it.
C39_DecayNeverIncreases ==
    scores.last = "decay" =>
        \A d \in DOMAIN scores.before : scores.score[d] <= scores.before[d]

====
